---- MODULE Spec2Model ----
(***************************************************************************)
(* Thalassocracy: the client's network pump and reconciliation engine      *)
(* (client/src/net.rs, client/src/scene/submarine.rs) and the server's     *)
(* authoritative loop (server/src/main.rs).                                *)
(*                                                                         *)
(* Numbers.  The code computes in f32 on Vec3/Quat.  Here a length is an   *)
(* integer number of centimetres along one axis, a speed an integer number *)
(* of cm/s, an angle an integer number of centiradians about the Y axis on *)
(* a circle of TwoPi, and a time an integer number of milliseconds         *)
(* (centiseconds for a ServerCorrection's elapsed/duration).  A blend      *)
(* factor 1 - exp(-k * dt) is a per-mille integer read from the frame's    *)
(* entry in FrameDts.                                                      *)
(***************************************************************************)
EXTENDS Integers, Sequences, FiniteSets, TLC

VARIABLES
    \* ---- client: resources and the submarine entity ----
    clientIn,        \* RenetClient receive queues: [rel |-> Seq, unrel |-> Seq]
    clientOut,       \* messages the client sent on ReliableOrdered
    connected,       \* RenetClient::is_connected()
    hello_sent,      \* HelloSent
    my_id,           \* MyPlayerId (None or a player id)
    latest,          \* LatestStateDelta (None or a StateDelta)
    paused,          \* client SimPause
    net_stats,       \* NetClientStats
    client_tick_dt,  \* ClientPhysicsTiming.dt as the tick rate it was set from
    filtered,        \* FilteredServerState
    tsync,           \* TimeSync
    transform,       \* Transform of the submarine: [translation, rotation]
    velocity,        \* Velocity of the submarine
    state_comp,      \* SubStateComp of the submarine (None until first step)
    corr,            \* ServerCorrection component (None when absent)
    controls,        \* ThrustInput.yaw
    net_controlled,  \* NetControlled marker present on the submarine
    commandsC,       \* client command buffers not yet applied
    outcome,         \* branch apply_state_to_sub took in the current frame
    applyLog,        \* what that run of apply_state_to_sub read and wrote
    pumpLog,         \* what the current frame's pump_network read and received
    serverSub,       \* the pose the server's submarine has from tick MoveTick on
    cNow,            \* Instant::now() / ConnectStart.at.elapsed(), ms
    cDt,             \* Time::delta_secs() of the current frame (index into FrameDts)
    cRan,            \* systems that already ran in the current Update
    cFrame           \* number of completed client frames

linkVars == <<clientOut, connected, hello_sent>>
pumpRes == <<my_id, latest, paused, client_tick_dt>>
reconRes == <<filtered, tsync, outcome, applyLog>>
subVars == <<transform, velocity, state_comp>>
frameVars == <<controls, serverSub, cNow, cDt, cFrame>>

clientVars == <<clientIn, linkVars, pumpRes, net_stats, pumpLog, reconRes, subVars, corr,
                net_controlled, commandsC, frameVars, cRan>>

VARIABLES
    \* ---- server: resources, entities and the frame ----
    server_clients,  \* RenetServer::clients_id(): the connected client ids
    server_events,   \* RenetServer event queue (ServerEvent)
    serverIn,        \* payloads waiting on ReliableOrdered, per client id
    serverOut,       \* messages the server sent in the current frame
    ClientEntities,  \* ClientEntities: client id -> Entity
    entities,        \* the world: Entity -> [status, player, state, input, sched]
    InputEventInbox, \* InputEventInbox: Seq of [entity, ev]
    SimPaused,       \* SimPaused
    PhysicsTiming,   \* PhysicsTiming.acc, ms
    SnapshotTiming,  \* SnapshotTiming.acc, ms
    Tick,            \* Tick
    next_uuid,       \* the next value Uuid::new_v4() returns
    commandsS,       \* server command buffers not yet applied, per system
    crashed,         \* a command panicked while being applied
    stepLog,         \* the ticks server_physics_tick consumed in the current frame
    physLog,         \* what the last server_physics_tick call saw and did
    client_proto,    \* protocol version of the build each client runs
    arrivals,        \* number of InputEvents the server has received
    sNow,            \* ServerStart.elapsed(), ms
    sDelta,          \* Time::delta_secs() of the current frame, ms
    sRan,            \* systems that already ran in the current Update
    sFrame,          \* number of completed server frames
    sSent            \* number of payloads clients have sent

netVars == <<server_clients, server_events, serverIn, serverOut, client_proto, sSent>>
worldVars == <<ClientEntities, entities, InputEventInbox, commandsS, crashed, next_uuid, arrivals>>
timingVars == <<SimPaused, PhysicsTiming, SnapshotTiming, Tick>>
sFrameVars == <<sNow, sDelta, sRan, sFrame, stepLog, physLog>>
serverVars == <<netVars, worldVars, timingVars, sFrameVars>>

VARIABLES
    \* ---- levels: the ballast tanks of one SubState under step_submarine ----
    ballast_fill,    \* SubState.ballast_fill: Seq of f32, per mille of a full tank
    ballastLog,      \* the inputs and the fill the last step_submarine call started from
    hull,            \* two SubStates with identical contents, each stepped once
    hullCall,        \* the arguments of the two calls, and what each call reported
    flowCall         \* a level, a position, and what sample_flow_at returned per time

VARIABLES
    \* ---- the pause flag between the server and several clients ----
    sim_pause,       \* SimPause of each client
    last,            \* Local<Option<bool>> of each client's send_pause_request
    requests,        \* PauseRequests on their way to the server, per client
    states,          \* PauseStates on their way to each client
    server_paused,   \* SimPaused of the server
    toggles          \* times the users may still press the pause toggle

pauseVars == <<sim_pause, last, requests, states, server_paused, toggles>>

levelVars == <<ballast_fill, ballastLog, hull, hullCall, flowCall, pauseVars>>

vars == <<clientVars, serverVars, levelVars>>

\* Option<T>
None == [some |-> FALSE]
Some(v) == [some |-> TRUE, val |-> v]

\* ---------------------------------------------------------------------------
\* Bounds of the model
\* ---------------------------------------------------------------------------
\* greatest tick a delivered StateDelta carries
MaxTick == 2
\* messages waiting on the two channels when the pump runs alone
MaxChan == 2
\* client frames explored
MaxFrame == 2
\* pump_network runs explored when the pump runs alone
MaxPumps == 1
\* ballast tanks of the SubState that is stepped on its own
MaxTanks == 3

\* ---------------------------------------------------------------------------
\* Program constants
\* ---------------------------------------------------------------------------
PROTOCOL_VERSION == 3
FRAC_PI_2 == 157              \* std::f32::consts::FRAC_PI_2 in centiradians
Pi == 2 * FRAC_PI_2
TwoPi == 4 * FRAC_PI_2
SnapPos == 1000               \* raw_pos_err > 10.0
SnapAng == 100                \* raw_ang_err > 1.0
SteerYaw == 5                 \* yaw_in > 0.05
CorrDuration == 25            \* duration: 0.25
CorrElapsedCap == 20          \* if corr.elapsed > 0.2 { corr.elapsed = 0.2 }
DefaultClientHz == 120        \* ClientPhysicsTiming::default dt = 1/120
DefaultTickHz == 30           \* default_tick_hz()
DefaultSnapshotHz == 20       \* default_snapshot_hz()

\* Time::delta_secs() values explored, each with the blend factors the code
\* derives from it (per mille): 1 - exp(-dt/tau) for tau = 0.10 and 0.035,
\* 1 - exp(-k*dt) for the stiffnesses k = 10, 8 and 4.
FrameDts ==
    << [ms |-> 20,  cs |-> 2,  tau100 |-> 181, tau35 |-> 435,  k10 |-> 181, k8 |-> 148, k4 |-> 77],
       [ms |-> 250, cs |-> 25, tau100 |-> 918, tau35 |-> 999,  k10 |-> 918, k8 |-> 865, k4 |-> 632] >>

\* ---------------------------------------------------------------------------
\* Vec3 / Quat helpers (glam)
\* ---------------------------------------------------------------------------
Abs(x) == IF x < 0 THEN -x ELSE x
MinOf(a, b) == IF a < b THEN a ELSE b
MaxOf(a, b) == IF a > b THEN a ELSE b

\* Vec3::distance / (a - b).length()
Distance(a, b) == Abs(a - b)

\* Vec3::lerp(self, rhs, s) = self + (rhs - self) * s
Lerp(a, b, al) == a + ((b - a) * al) \div 1000

\* q * Quat::from_rotation_y(angle) for rotations about Y
MulRotationY(q, angle) == (q + angle) % TwoPi

\* Quat::angle_between: the unsigned angle in [0, pi]
AngleBetween(a, b) ==
    LET d == (a - b) % TwoPi
    IN  IF d > TwoPi - d THEN TwoPi - d ELSE d

\* Quat::slerp along the shorter arc
Slerp(a, b, al) ==
    LET s == ((b - a + Pi) % TwoPi) - Pi
    IN  (a + (s * al) \div 1000) % TwoPi

\* ---------------------------------------------------------------------------
\* Inputs the environment supplies to the client
\* ---------------------------------------------------------------------------
\* player ids in snapshots: this client's and another player's
PlayerIds == <<1, 2>>
Me == PlayerIds[1]
Other == PlayerIds[2]

\* (position, orientation in the physics frame, velocity) of a player in a
\* snapshot: at the spawn pose; inside the dead band; beyond the enter
\* thresholds; a teleport in position; a teleport in heading.
SpawnSample == [position |-> 0, orientation |-> 157, velocity |-> 0]

FarSamples ==
    { [position |-> 30,   orientation |-> 170, velocity |-> 30],
      [position |-> 1200, orientation |-> 157, velocity |-> 0],
      [position |-> 0,    orientation |-> 357, velocity |-> 0] }

MoveTick == MaxTick

\* the authoritative pose of this client's submarine at a server tick; a
\* duplicate of a snapshot carries the same pose as the original
ServerTrack(tick) == IF tick < MoveTick THEN SpawnSample ELSE serverSub

NetPlayer(id, s) ==
    [id |-> id, position |-> s.position, velocity |-> s.velocity, orientation |-> s.orientation]

ServerMsPerTick == 1000 \div DefaultTickHz

StateDeltaMsg(tick, players) ==
    [type |-> "StateDelta", tick |-> tick, server_ms |-> tick * ServerMsPerTick, players |-> players]

\* snapshots of the ticks 0..MaxTick: another player first, then this client's
\* own entry; and one taken before this client's entity was spawned
StateDeltas ==
    {StateDeltaMsg(k, <<NetPlayer(Other, SpawnSample), NetPlayer(Me, ServerTrack(k))>>) : k \in 0..MaxTick}
    \cup {StateDeltaMsg(1, <<NetPlayer(Other, SpawnSample)>>)}

JoinAckMsg(hz) == [type |-> "JoinAck", player_id |-> Me, tick_hz |-> hz]

\* what may arrive when only the network pump is studied; "Undecodable"
\* stands for bytes that protocol::decode rejects
PumpReliableMsgs ==
    { JoinAckMsg(0),
      [type |-> "PauseState", paused |-> TRUE],
      [type |-> "InputAck", tick |-> 1],
      [type |-> "Disconnect"],
      StateDeltaMsg(1, <<NetPlayer(Me, SpawnSample)>>) }

PumpUnreliableMsgs ==
    {StateDeltaMsg(k, <<NetPlayer(Me, SpawnSample)>>) : k \in 0..MaxTick}
    \cup {[type |-> "Undecodable"], [type |-> "InputAck", tick |-> 1]}

\* displacement of (position, orientation, velocity) over the physics steps of
\* one frame; stands for step_submarine_dbg, whose dynamics are not part of
\* the client's control flow
Drifts ==
    { [position |-> 30, orientation |-> 13, velocity |-> 30] }

YawInputs == {0, 100}

\* ---------------------------------------------------------------------------
\* pump_network (client/src/net.rs)
\* ---------------------------------------------------------------------------
\* the resources pump_network mutates, bundled so the receive loops can be folded
PumpState ==
    [my_id |-> my_id, latest |-> latest, paused |-> paused,
     net_stats |-> net_stats, client_tick_dt |-> client_tick_dt]

\* inter-arrival EWMA update of an accepted snapshot
InterArrival(ns, now) ==
    IF ns.last_state_instant.some
    THEN LET dt_ms == MaxOf(now - ns.last_state_instant.val, 0)
         IN  IF ns.inter_arrival_ewma_ms = 0 THEN dt_ms
             ELSE ns.inter_arrival_ewma_ms + (2 * (dt_ms - ns.inter_arrival_ewma_ms)) \div 10
    ELSE ns.inter_arrival_ewma_ms

\* let latest_tick = latest.0.as_ref().map(|d| d.tick).unwrap_or(0)
LatestTick(l) == IF l.some THEN l.val.tick ELSE 0

\* variant: a snapshot of the tick already held is accepted again
AcceptStateDeltaGeq(st, delta, now) ==
    IF delta.tick >= LatestTick(st.latest)
    THEN [st EXCEPT !.latest = Some(delta),
                    !.net_stats = [st.net_stats EXCEPT
                        !.inter_arrival_ewma_ms = InterArrival(st.net_stats, now),
                        !.last_state_instant = Some(now),
                        !.last_server_tick = Some(delta.tick)]]
    ELSE st

\* the StateDelta arm, identical on both channels
AcceptStateDelta(st, delta, now) ==
    IF delta.tick > LatestTick(st.latest)
    THEN [st EXCEPT !.latest = Some(delta),
                    !.net_stats = [st.net_stats EXCEPT
                        !.inter_arrival_ewma_ms = InterArrival(st.net_stats, now),
                        !.last_state_instant = Some(now),
                        !.last_server_tick = Some(delta.tick)]]
    ELSE st

ReceiveReliable(st, m, now) ==
    CASE m.type = "JoinAck" ->
            [st EXCEPT !.my_id = Some(m.player_id),
                       !.client_tick_dt = MaxOf(m.tick_hz, 1)]
      [] m.type = "StateDelta" -> AcceptStateDelta(st, m, now)
      [] m.type = "PauseState" -> [st EXCEPT !.paused = m.paused]
      [] m.type = "InputAck" -> [st EXCEPT !.net_stats.last_acked_tick = Some(m.tick)]
      [] OTHER -> st

ReceiveUnreliable(st, m, now) ==
    CASE m.type = "StateDelta" -> AcceptStateDelta(st, m, now)
      [] OTHER -> st

RECURSIVE DrainReliable(_, _, _)
DrainReliable(st, q, now) ==
    IF q = <<>> THEN st
    ELSE DrainReliable(ReceiveReliable(st, Head(q), now), Tail(q), now)

RECURSIVE DrainUnreliable(_, _, _)
DrainUnreliable(st, q, now) ==
    IF q = <<>> THEN st
    ELSE DrainUnreliable(ReceiveUnreliable(st, Head(q), now), Tail(q), now)

\* a NetSet system runs once per frame, before the sync point ahead of SimSet
Ran(sys) == sys \in cRan
NetSetOpen(sys) == ~Ran(sys) /\ ~Ran("sync")

pump_network ==
    /\ UNCHANGED <<serverVars, levelVars>>
    /\ NetSetOpen("pump")
    /\ LET sendHello == connected /\ ~hello_sent
           st1 == DrainReliable(PumpState, clientIn.rel, cNow)
           st2 == DrainUnreliable(st1, clientIn.unrel, cNow)
       IN  /\ clientOut' = IF sendHello
                           THEN Append(clientOut, [type |-> "Hello", protocol |-> PROTOCOL_VERSION])
                           ELSE clientOut
           /\ hello_sent' = (hello_sent \/ sendHello)
           /\ my_id' = st2.my_id
           /\ latest' = st2.latest
           /\ paused' = st2.paused
           /\ net_stats' = st2.net_stats
           /\ client_tick_dt' = st2.client_tick_dt
    /\ pumpLog' = Some([pre |-> PumpState, received |-> clientIn.rel \o clientIn.unrel])
    /\ clientIn' = [rel |-> <<>>, unrel |-> <<>>]
    /\ cRan' = cRan \cup {"pump"}
    /\ UNCHANGED <<connected, reconRes, subVars, corr, net_controlled, commandsC, frameVars>>

\* ---------------------------------------------------------------------------
\* apply_state_to_sub (client/src/net.rs)
\* ---------------------------------------------------------------------------
\* delta.players.iter().find(|p| p.id == my_id)
FindPlayer(players, id) ==
    LET idx == {i \in 1..Len(players) : players[i].id = id}
    IN  IF idx = {} THEN None
        ELSE Some(players[CHOOSE i \in idx : \A j \in idx : i <= j])

\* Convert physics (body +Z forward) to mesh (visual +X forward): apply -90 deg yaw
MeshFromPhysics(orientation) == MulRotationY(orientation, -FRAC_PI_2)

Steering == Abs(controls) > SteerYaw

\* TimeSync fold: offset_ms + 0.1 * (sample - offset_ms)
TimeSyncFold(ts, server_ms, local_ms) ==
    [offset_ms |-> ts.offset_ms + ((server_ms - local_ms) - ts.offset_ms) \div 10,
     last_server_ms |-> server_ms]

\* Initialise or low-pass filter the authoritative target
FilterUpdate(f, me, dt) ==
    LET target_rot == MeshFromPhysics(me.orientation)
        alpha == IF Steering THEN dt.tau35 ELSE dt.tau100
    IN  IF ~f.initialized
        THEN [initialized |-> TRUE, pos |-> me.position, rot |-> target_rot, vel |-> me.velocity]
        ELSE [initialized |-> TRUE,
              pos |-> Lerp(f.pos, me.position, alpha),
              rot |-> Slerp(f.rot, target_rot, alpha),
              vel |-> Lerp(f.vel, me.velocity, alpha)]

\* raw_ang_err = t.rotation.angle_between(target_rot), where target_rot is by
\* then the shadowing binding `let target_rot = filtered.rot`
RawAngErr(f, me) == AngleBetween(transform.rotation, f.rot)

TinyPos == IF Steering THEN 8 ELSE 4
TinyAng == IF Steering THEN 5 ELSE 3
TinyVel == IF Steering THEN 8 ELSE 4
EnterPos == IF Steering THEN 20 ELSE 8
EnterAng == IF Steering THEN 10 ELSE 5
EnterVel == IF Steering THEN 20 ELSE 8

SnapNow(f, me) ==
    \/ Distance(transform.translation, me.position) > SnapPos
    \/ RawAngErr(f, me) > SnapAng

Tiny(f) ==
    /\ Distance(transform.translation, f.pos) < TinyPos
    /\ AngleBetween(transform.rotation, f.rot) < TinyAng
    /\ Distance(velocity, f.vel) < TinyVel

\* variant: every non-tiny error counts as needing a correction
NeedCorrAlways(f) == TRUE

NeedCorr(f) ==
    \/ Distance(transform.translation, f.pos) > EnterPos
    \/ AngleBetween(transform.rotation, f.rot) > EnterAng
    \/ Distance(velocity, f.vel) > EnterVel

\* the branch of the if / else-if chain taken for the filtered target f
Branch(f, me) ==
    IF SnapNow(f, me) THEN "snap"
    ELSE IF Tiny(f) THEN "tiny"
    ELSE IF corr.some THEN "update"
    ELSE IF NeedCorr(f) THEN "new"
    ELSE "dead"

InsertNetControlled == [op |-> "insert_NetControlled"]
RemoveCorrection == [op |-> "remove_ServerCorrection"]
InsertCorrection(c) == [op |-> "insert_ServerCorrection", c |-> c]

NewCorrection(f) ==
    [target_pos |-> f.pos, target_rot |-> f.rot, target_vel |-> f.vel,
     elapsed |-> 0, duration |-> CorrDuration]

\* variant: an update restarts the blend
UpdateRestart(c, f) ==
    [c EXCEPT !.target_pos = f.pos, !.target_rot = f.rot, !.target_vel = f.vel,
              !.elapsed = 0]

\* corr.target_* = target_*; if corr.elapsed > 0.2 { corr.elapsed = 0.2 }
UpdateInPlace(c, f) ==
    [c EXCEPT !.target_pos = f.pos, !.target_rot = f.rot, !.target_vel = f.vel,
              !.elapsed = IF @ > CorrElapsedCap THEN CorrElapsedCap ELSE @]

\* variant: a snap leaves an existing correction in place
BranchCommandsSnapKeeps(b, f) ==
    CASE b = "tiny" -> IF corr.some THEN <<RemoveCorrection>> ELSE <<>>
      [] b = "new" -> <<InsertCorrection(NewCorrection(f))>>
      [] OTHER -> <<>>

\* variant: the tiny branch keeps an existing correction
BranchCommandsKeep(b, f) ==
    CASE b = "snap" -> <<RemoveCorrection>>
      [] b = "new" -> <<InsertCorrection(NewCorrection(f))>>
      [] OTHER -> <<>>

\* the commands the branch queues
BranchCommands(b, f) ==
    CASE b = "snap" -> <<RemoveCorrection>>
      [] b = "tiny" -> IF corr.some THEN <<RemoveCorrection>> ELSE <<>>
      [] b = "new" -> <<InsertCorrection(NewCorrection(f))>>
      [] OTHER -> <<>>

MePlayer == IF my_id.some /\ latest.some THEN FindPlayer(latest.val.players, my_id.val) ELSE None

\* the entity as apply_state_to_sub sees or leaves it
SubView(t, v, c, snapmag) ==
    [transform |-> t, velocity |-> v, corr |-> c, last_snap_magnitude_m |-> snapmag]

apply_state_to_sub ==
    /\ UNCHANGED <<serverVars, levelVars>>
    /\ NetSetOpen("apply")
    /\ cRan' = cRan \cup {"apply"}
    /\ IF ~MePlayer.some
       THEN /\ outcome' = "skip"
            /\ applyLog' = Some([after_pump |-> Ran("pump")])
            /\ UNCHANGED <<tsync, filtered, transform, velocity, corr, net_stats, commandsC>>
       ELSE LET me == MePlayer.val
                f == FilterUpdate(filtered, me, FrameDts[cDt])
                b == Branch(f, me)
                t1 == IF b = "snap" THEN [translation |-> f.pos, rotation |-> f.rot] ELSE transform
                v1 == IF b \in {"snap", "tiny"} THEN f.vel ELSE velocity
                c1 == IF b = "update" THEN Some(UpdateInPlace(corr.val, f)) ELSE corr
                m1 == IF b = "snap" THEN Distance(transform.translation, me.position)
                      ELSE net_stats.last_snap_magnitude_m
                cmds == BranchCommands(b, f)
            IN  /\ tsync' = TimeSyncFold(tsync, latest.val.server_ms, cNow)
                /\ filtered' = f
                /\ outcome' = b
                /\ transform' = t1
                /\ velocity' = v1
                /\ corr' = c1
                /\ net_stats' = [net_stats EXCEPT !.last_snap_magnitude_m = m1]
                /\ commandsC' = commandsC \o <<InsertNetControlled>> \o cmds
                /\ applyLog' = Some([after_pump |-> Ran("pump"),
                                     me |-> me, steering |-> Steering,
                                     was_initialized |-> filtered.initialized,
                                     filtered |-> f,
                                     pre |-> SubView(transform, velocity, corr,
                                                     net_stats.last_snap_magnitude_m),
                                     post |-> SubView(t1, v1, c1, m1),
                                     queued |-> cmds])
    /\ UNCHANGED <<clientIn, linkVars, pumpRes, pumpLog, state_comp, net_controlled, frameVars>>

\* ---------------------------------------------------------------------------
\* Deferred commands: applied at the sync point the schedule places between
\* NetSet and SimSet, and again at the end of the Update schedule
\* ---------------------------------------------------------------------------
RECURSIVE CorrAfter(_, _)
CorrAfter(c, cmds) ==
    IF cmds = <<>> THEN c
    ELSE LET h == Head(cmds)
         IN  CorrAfter(CASE h.op = "insert_ServerCorrection" -> Some(h.c)
                         [] h.op = "remove_ServerCorrection" -> None
                         [] OTHER -> c,
                       Tail(cmds))

NetControlledAfter(n, cmds) ==
    n \/ \E i \in 1..Len(cmds) : cmds[i].op = "insert_NetControlled"

apply_deferred ==
    /\ UNCHANGED <<serverVars, levelVars>>
    /\ ~Ran("sync")
    /\ Ran("pump") /\ Ran("apply")
    /\ corr' = CorrAfter(corr, commandsC)
    /\ net_controlled' = NetControlledAfter(net_controlled, commandsC)
    /\ commandsC' = <<>>
    /\ cRan' = cRan \cup {"sync"}
    /\ UNCHANGED <<clientIn, linkVars, pumpRes, net_stats, pumpLog, reconRes, subVars, frameVars>>

\* ---------------------------------------------------------------------------
\* simulate_submarine (client/src/scene/submarine.rs)
\* ---------------------------------------------------------------------------
\* SubState built from the Transform when ballast_fill is empty
StateFromTransform ==
    [position |-> transform.translation,
     orientation |-> MulRotationY(transform.rotation, FRAC_PI_2),
     velocity |-> velocity]

Advance(st, d) ==
    [position |-> st.position + d.position,
     orientation |-> (st.orientation + d.orientation) % TwoPi,
     velocity |-> st.velocity + d.velocity]

\* `stepped` says whether the accumulator yields at least one fixed step this
\* frame (timing.acc itself is not represented)
Simulate(drifts) ==
    /\ UNCHANGED <<serverVars, levelVars>>
    /\ ~Ran("sim")
    /\ Ran("sync")
    /\ cRan' = cRan \cup {"sim"}
    /\ \E stepped \in BOOLEAN, d \in drifts :
         IF paused \/ ~stepped
         THEN UNCHANGED subVars
         ELSE LET st0 == IF state_comp.some THEN state_comp.val ELSE StateFromTransform
                  st1 == Advance(st0, d)
              IN  /\ state_comp' = Some(st1)
                  /\ transform' = [translation |-> st1.position,
                                   rotation |-> MulRotationY(st1.orientation, -FRAC_PI_2)]
                  /\ velocity' = st1.velocity
    /\ UNCHANGED <<clientIn, linkVars, pumpRes, net_stats, pumpLog, reconRes, corr,
                   net_controlled, commandsC, frameVars>>

simulate_submarine == Simulate(Drifts)

\* ---------------------------------------------------------------------------
\* apply_server_corrections (client/src/scene/submarine.rs)
\* ---------------------------------------------------------------------------
apply_server_corrections ==
    /\ UNCHANGED <<serverVars, levelVars>>
    /\ ~Ran("blend")
    /\ cRan' = cRan \cup {"blend"}
    /\ IF ~corr.some
       THEN UNCHANGED <<transform, velocity, corr, commandsC>>
       ELSE LET dt == FrameDts[cDt]
                c == corr.val
                alpha_rot == IF Steering THEN dt.k4 ELSE dt.k8
                t1 == [translation |-> Lerp(transform.translation, c.target_pos, dt.k10),
                       rotation |-> Slerp(transform.rotation, c.target_rot, alpha_rot)]
                v1 == Lerp(velocity, c.target_vel, dt.k10)
                pos_err == Distance(t1.translation, c.target_pos)
                ang_err == AngleBetween(t1.rotation, c.target_rot)
                vel_err == Distance(v1, c.target_vel)
            IN  /\ transform' = t1
                /\ velocity' = v1
                /\ corr' = Some([c EXCEPT !.elapsed = @ + dt.cs])
                /\ commandsC' = IF pos_err < 1 /\ ang_err < 1 /\ vel_err < 2
                                THEN Append(commandsC, RemoveCorrection)
                                ELSE commandsC
    /\ UNCHANGED <<clientIn, linkVars, pumpRes, net_stats, pumpLog, reconRes, state_comp,
                   net_controlled, frameVars>>

\* ---------------------------------------------------------------------------
\* The frame boundary and the environment of the client
\* ---------------------------------------------------------------------------
AllClientSystems == {"pump", "apply", "sync", "sim", "blend"}

\* the next frame's clock and the player's rudder input; the frame time of a
\* run is steady (cDt is drawn once, in ClientInit)
NextFrameInputs ==
    /\ cFrame' = cFrame + 1
    /\ cNow' = cNow + FrameDts[cDt].ms
    /\ UNCHANGED <<controls, serverSub, cDt>>

\* end of Update: the remaining command buffers are applied
EndOfUpdate ==
    /\ UNCHANGED <<serverVars, levelVars>>
    /\ \A sys \in AllClientSystems : Ran(sys)
    /\ corr' = CorrAfter(corr, commandsC)
    /\ net_controlled' = NetControlledAfter(net_controlled, commandsC)
    /\ commandsC' = <<>>
    /\ cRan' = {}
    /\ outcome' = "none"
    /\ applyLog' = None
    /\ pumpLog' = None
    /\ UNCHANGED <<clientIn, linkVars, pumpRes, net_stats, filtered, tsync, subVars>>

EndClientFrame ==
    /\ cFrame < MaxFrame
    /\ EndOfUpdate
    /\ NextFrameInputs

\* the transport establishes the session
ClientConnects ==
    /\ UNCHANGED <<serverVars, levelVars>>
    /\ ~connected
    /\ cRan = {}
    /\ connected' = TRUE
    /\ UNCHANGED <<clientIn, clientOut, hello_sent, pumpRes, net_stats, pumpLog, reconRes,
                   subVars, corr, net_controlled, commandsC, frameVars, cRan>>

\* the server answers the Hello with one JoinAck
ServerSendsJoinAck ==
    /\ UNCHANGED <<serverVars, levelVars>>
    /\ cRan = {}
    /\ hello_sent
    /\ ~my_id.some
    /\ clientIn.rel = <<>>
    /\ clientIn' = [clientIn EXCEPT !.rel = <<JoinAckMsg(30)>>]
    /\ UNCHANGED <<linkVars, pumpRes, net_stats, pumpLog, reconRes, subVars, corr,
                   net_controlled, commandsC, frameVars, cRan>>

\* the unreliable channel hands over a snapshot: any tick in any order, so
\* duplicated and reordered snapshots are included.  One snapshot is waiting
\* per frame here; pumps of several messages are explored in SpecNet.
SnapshotArrives ==
    /\ UNCHANGED <<serverVars, levelVars>>
    /\ cRan = {}
    /\ clientIn.unrel = <<>>
    /\ \E m \in StateDeltas : clientIn' = [clientIn EXCEPT !.unrel = <<m>>]
    /\ UNCHANGED <<linkVars, pumpRes, net_stats, pumpLog, reconRes, subVars, corr,
                   net_controlled, commandsC, frameVars, cRan>>

\* ===========================================================================
\* The server (server/src/main.rs)
\* ===========================================================================
\* Lengths on the server are whole metres on the X (along the tunnel) and Y
\* (depth) axes; times are milliseconds.

\* ---- bounds of the server model ----
\* server frames explored
MaxServerFrames == 2
\* payloads the clients send in a run
MaxSends == 4
\* payloads a client may have waiting when a frame starts
MaxInbound == MaxSends - 1

ClientIds == {1}
Entities == {1}
\* frame times a server run may have: short frames, or frames that need
\* catch-up ticks
FrameDeltas == {20, 70}

\* the timings server_setup derives from Config, ms
PhysicsDt == 1000 \div DefaultTickHz
SnapshotDt == 1000 \div DefaultSnapshotHz

\* greybox_level(): centre and size of the station room, tunnel and chamber
Level ==
    [room    |-> [size |-> [x |-> 240, y |-> 48], wall_thickness |-> 2,
                  dock_pos |-> [x |-> -16, y |-> 0]],
     tunnel  |-> [pos |-> [x |-> 264, y |-> 4], size |-> [x |-> 288, y |-> 24]],
     chamber |-> [pos |-> [x |-> 488, y |-> 4], size |-> [x |-> 160, y |-> 40]]]

\* start position near the tunnel entrance: (t.pos.x - half_x + 6, t.pos.y)
SpawnState ==
    [position |-> [x |-> Level.tunnel.pos.x - Level.tunnel.size.x \div 2 + 6,
                   y |-> Level.tunnel.pos.y]]

\* f32::clamp(-1.0, 1.0)
Clamp(v) == MaxOf(-1, MinOf(1, v))

\* SubInputs::default()
DefaultInputs == [thrust |-> 0, yaw |-> 0, pump_fwd |-> 0, pump_aft |-> 0]

\* what a client may put in an InputTick / InputEvent (before the server clamps)
DiveInputs == [thrust |-> 0, yaw |-> 0, pump_fwd |-> 3, pump_aft |-> 0]
AheadInputs == [thrust |-> 1, yaw |-> 0, pump_fwd |-> 0, pump_aft |-> 0]
\* the InputEvents a client sends: how far ahead of the server clock it is
\* stamped, and the raw inputs it carries
EventKinds == {[lead |-> 0, inputs |-> DiveInputs], [lead |-> 100, inputs |-> AheadInputs]}

\* displacement of one tick at full input, metres (coarse: one tick of the
\* model stands for the many ticks the hull needs to cover this distance)
StepScale == [surge |-> 6, sink |-> 13]

\* step_submarine: thrust moves the hull along the tunnel, a filling forward
\* tank makes it sink
StepSubmarine(s, inp) ==
    [position |-> [x |-> s.position.x + StepScale.surge * Clamp(inp.thrust),
                   y |-> s.position.y - StepScale.sink * Clamp(inp.pump_fwd)]]

\* the closure `inside` of server_physics_tick
Inside(p, center, size) ==
    /\ 2 * p.x >= 2 * center.x - size.x /\ 2 * p.x <= 2 * center.x + size.x
    /\ 2 * p.y >= 2 * center.y - size.y /\ 2 * p.y <= 2 * center.y + size.y

\* allowed = in_room || in_room2 || in_tunnel || in_chamber
Allowed(p) ==
    \/ Inside(p, [x |-> Level.room.dock_pos.x + 16, y |-> Level.room.dock_pos.y], Level.room.size)
    \/ Inside(p, [x |-> 0, y |-> Level.room.size.y \div 2 - Level.room.wall_thickness],
              Level.room.size)
    \/ Inside(p, Level.tunnel.pos, Level.tunnel.size)
    \/ Inside(p, Level.chamber.pos, Level.chamber.size)

FreeEntity == [status |-> "free", player |-> 0, state |-> SpawnState, input |-> None, sched |-> None]

NoCommands == [events |-> <<>>, messages |-> <<>>, physics |-> <<>>]

\* the state server_setup leaves
\* the resources and the world server_setup leaves behind
ServerResources ==
    /\ serverIn = [c \in ClientIds |-> <<>>]
    /\ serverOut = <<>>
    /\ ClientEntities = <<>>
    /\ entities = [e \in Entities |-> FreeEntity]
    /\ InputEventInbox = <<>>
    /\ SimPaused = FALSE
    /\ PhysicsTiming = 0
    /\ SnapshotTiming = 0
    /\ Tick = 0
    /\ next_uuid = 1
    /\ commandsS = NoCommands
    /\ crashed = FALSE
    /\ stepLog = <<>>
    /\ physLog = [paused |-> FALSE, call |-> None]
    /\ arrivals = 0
    /\ sNow = 0
    /\ sRan = {}
    /\ sFrame = 0
    /\ sSent = 0

\* no client has connected yet
ServerInitBase ==
    /\ ServerResources
    /\ server_clients = {}
    /\ server_events = <<>>
    /\ client_proto = [c \in ClientIds |-> 0]

\* the server is not part of the run
ServerIdle == ServerInitBase /\ sDelta = 20

\* no SubState is stepped on its own
\* no pause flag is exchanged
PauseIdle ==
    /\ sim_pause = <<>> /\ last = <<>> /\ requests = <<>> /\ states = <<>>
    /\ server_paused = FALSE /\ toggles = 0

HullIdle == hull = <<>> /\ hullCall = None /\ flowCall = None /\ PauseIdle

LevelIdle == ballast_fill = <<>> /\ ballastLog = None /\ HullIdle

\* the resources and the submarine entity of a client that has just started
ClientResources ==
    /\ clientIn = [rel |-> <<>>, unrel |-> <<>>]
    /\ clientOut = <<>>
    /\ hello_sent = FALSE
    /\ my_id = None
    /\ latest = None
    /\ paused = FALSE
    /\ net_stats = [last_state_instant |-> None, inter_arrival_ewma_ms |-> 0,
                    last_acked_tick |-> None, last_server_tick |-> None,
                    last_snap_magnitude_m |-> 0]
    /\ client_tick_dt = DefaultClientHz
    /\ filtered = [initialized |-> FALSE, pos |-> 0, rot |-> 0, vel |-> 0]
    /\ tsync = [offset_ms |-> 0, last_server_ms |-> 0]
    /\ transform = [translation |-> 0, rotation |-> 0]
    /\ velocity = 0
    /\ state_comp = None
    /\ corr = None
    /\ net_controlled = FALSE
    /\ commandsC = <<>>
    /\ outcome = "none"
    /\ applyLog = None
    /\ pumpLog = None
    /\ cNow = 0
    /\ cRan = {}
    /\ cFrame = 0

\* the transport has not connected yet
ClientInitBase == ClientResources /\ connected = FALSE

ClientInit ==
    /\ ClientInitBase
    /\ ServerIdle
    /\ LevelIdle
    /\ controls \in YawInputs
    /\ serverSub \in FarSamples
    /\ cDt \in 1..Len(FrameDts)

ClientNext ==
    \/ pump_network
    \/ apply_state_to_sub
    \/ apply_deferred
    \/ simulate_submarine
    \/ apply_server_corrections
    \/ EndClientFrame
    \/ ClientConnects
    \/ ServerSendsJoinAck
    \/ SnapshotArrives

SpecClient == ClientInit /\ [][ClientNext]_vars

\* ===========================================================================
\* The client with a hull at rest: frames follow each other without end.  The
\* physics steps leave the SubState where it is, the server's submarine stays
\* at the pose of its snapshot of tick MoveTick, and the clock is followed up
\* to MaxClockMs (TimeSync, its only reader from then on, takes no part in the
\* reconciliation).
\* ===========================================================================
\* the greatest clock value told apart, ms
MaxClockMs == 20

\* the steps of a frame leave a hull that is in equilibrium where it is
AtRest == {[position |-> 0, orientation |-> 0, velocity |-> 0]}

simulate_at_rest == Simulate(AtRest)

NextFrame ==
    /\ EndOfUpdate
    /\ cNow' = MinOf(cNow + FrameDts[cDt].ms, MaxClockMs)
    /\ UNCHANGED <<controls, serverSub, cDt, cFrame>>

CorrectionSystems ==
    \/ pump_network
    \/ apply_state_to_sub
    \/ apply_deferred
    \/ simulate_at_rest
    \/ apply_server_corrections
    \/ NextFrame

CorrectionInit == ClientInit

\* the unreliable channel hands over the snapshot of tick MoveTick
MovedSnapshotArrives ==
    /\ UNCHANGED <<serverVars, levelVars>>
    /\ cRan = {}
    /\ clientIn.unrel = <<>>
    /\ ~latest.some
    /\ clientIn' = [clientIn EXCEPT !.unrel =
                       <<StateDeltaMsg(MoveTick, <<NetPlayer(Other, SpawnSample),
                                                   NetPlayer(Me, serverSub)>>)>>]
    /\ UNCHANGED <<linkVars, pumpRes, net_stats, pumpLog, reconRes, subVars, corr,
                   net_controlled, commandsC, frameVars, cRan>>

CorrectionNext ==
    \/ CorrectionSystems
    \/ ClientConnects
    \/ ServerSendsJoinAck
    \/ MovedSnapshotArrives

\* the Update schedule runs every system in every frame, and the application
\* keeps taking frames
SpecCorrection ==
    CorrectionInit /\ [][CorrectionNext]_vars /\ WF_vars(CorrectionSystems)

\* ===========================================================================
\* Properties of the client
\* ===========================================================================
IsStateDelta(m) == m.type = "StateDelta"
ReceivedDeltas == {i \in 1..Len(pumpLog.val.received) : IsStateDelta(pumpLog.val.received[i])}
ReceivedTick(i) == pumpLog.val.received[i].tick
SnapshotStats(ns) == <<ns.last_server_tick, ns.last_state_instant, ns.inter_arrival_ewma_ms>>

\* C1: a pump that receives only StateDeltas whose tick is <= the tick of the
\* snapshot held leaves LatestStateDelta, last_server_tick, last_state_instant
\* and the inter-arrival EWMA as they were; and whenever the held snapshot is
\* replaced, the new one has a strictly greater tick.
C1_StaleSnapshotsDropped ==
    (pumpLog.some /\ pumpLog.val.pre.latest.some) =>
        LET held == pumpLog.val.pre.latest.val.tick
        IN  /\ (\A i \in ReceivedDeltas : ReceivedTick(i) <= held) =>
                 /\ latest = pumpLog.val.pre.latest
                 /\ SnapshotStats(net_stats) = SnapshotStats(pumpLog.val.pre.net_stats)
            /\ latest.some
            /\ latest # pumpLog.val.pre.latest => latest.val.tick > held
            /\ latest.val.tick >= held

\* a duplicate (or older) snapshot arrived while one was held, and was dropped
C1_Witness ==
    /\ pumpLog.some
    /\ pumpLog.val.pre.latest.some
    /\ ReceivedDeltas # {}
    /\ \A i \in ReceivedDeltas : ReceivedTick(i) <= pumpLog.val.pre.latest.val.tick
    /\ \E i \in ReceivedDeltas : ReceivedTick(i) = pumpLog.val.pre.latest.val.tick
    /\ latest = pumpLog.val.pre.latest
    /\ cNow > pumpLog.val.pre.net_stats.last_state_instant.val

\* ---- what the logged run of apply_state_to_sub saw, recomputed from the log ----
Applied == applyLog.some /\ outcome \notin {"none", "skip"}
LogPre == applyLog.val.pre
LogPost == applyLog.val.post
LogTarget == applyLog.val.filtered
\* the snapshot's own values: position and velocity as received, orientation
\* converted to the mesh frame
LogRawRot == MulRotationY(applyLog.val.me.orientation, -FRAC_PI_2)
LogRawPosErr == Distance(LogPre.transform.translation, applyLog.val.me.position)
LogRawAngErr == AngleBetween(LogPre.transform.rotation, LogRawRot)
LogPosErr == Distance(LogPre.transform.translation, LogTarget.pos)
LogAngErr == AngleBetween(LogPre.transform.rotation, LogTarget.rot)
LogVelErr == Distance(LogPre.velocity, LogTarget.vel)
LogTiny ==
    IF applyLog.val.steering
    THEN LogPosErr < 8 /\ LogAngErr < 5 /\ LogVelErr < 8
    ELSE LogPosErr < 4 /\ LogAngErr < 3 /\ LogVelErr < 4
LogOverEnter ==
    IF applyLog.val.steering
    THEN LogPosErr > 20 \/ LogAngErr > 10 \/ LogVelErr > 20
    ELSE LogPosErr > 8 \/ LogAngErr > 5 \/ LogVelErr > 8
\* the frame snaps: raw position error over 10 m, or the angular error the
\* code measures (against the filtered rotation) over 1 rad
LogSnaps == LogRawPosErr > 1000 \/ LogAngErr > 100
LogQueuedOps == {applyLog.val.queued[i].op : i \in 1..Len(applyLog.val.queued)}
LogUnchanged == LogPost = LogPre /\ applyLog.val.queued = <<>>

\* C2 (as stated): raw position error over 10 m or raw angular error over
\* 1 rad always gives the snap outcome.
C2_RawErrorAlwaysSnaps ==
    (Applied /\ (LogRawPosErr > 1000 \/ LogRawAngErr > 100)) => outcome = "snap"

\* C3 (as stated): a snap overwrites position, rotation and velocity with the
\* snapshot's own values, removes the correction, records the raw position error.
C3_SnapWritesSnapshot ==
    (Applied /\ outcome = "snap") =>
        /\ LogPost.transform.translation = applyLog.val.me.position
        /\ LogPost.transform.rotation = LogRawRot
        /\ LogPost.velocity = applyLog.val.me.velocity
        /\ "remove_ServerCorrection" \in LogQueuedOps
        /\ LogPost.last_snap_magnitude_m = LogRawPosErr

\* C3 (amended): a snap (raw position error over 10 m, or angular error to the
\* filtered rotation over 1 rad) overwrites position, rotation and velocity
\* with the FilteredServerState values of that frame, which are the snapshot's
\* own values in the frame that initialises the filter; it queues the removal
\* of ServerCorrection, so that none is present after the next sync point; and
\* it records the raw position error.
C3_SnapWritesFilteredTarget ==
    /\ (Applied /\ LogSnaps) =>
        /\ outcome = "snap"
        /\ LogPost.transform = [translation |-> LogTarget.pos, rotation |-> LogTarget.rot]
        /\ LogPost.velocity = LogTarget.vel
        /\ LogTarget = filtered
        /\ ~applyLog.val.was_initialized =>
               /\ LogTarget.pos = applyLog.val.me.position
               /\ LogTarget.rot = LogRawRot
               /\ LogTarget.vel = applyLog.val.me.velocity
        /\ applyLog.val.queued = <<RemoveCorrection>>
        /\ LogPost.last_snap_magnitude_m = LogRawPosErr
        /\ Ran("sync") => ~corr.some
    /\ (Applied /\ ~LogSnaps) => LogPost.last_snap_magnitude_m = LogPre.last_snap_magnitude_m

\* a snap by position in a frame whose filter lags the snapshot, seen after the
\* sync point
C3_Witness ==
    /\ Applied /\ LogSnaps
    /\ applyLog.val.was_initialized
    /\ LogTarget.pos # applyLog.val.me.position
    /\ LogRawPosErr > 1000
    /\ Ran("sync")

\* C4: no snap and all three filtered errors under the tiny thresholds: no
\* ServerCorrection is created, an existing one is removed, position and
\* rotation stay and the velocity becomes the target velocity.
C4_TinyNeverCorrects ==
    (Applied /\ LogRawPosErr <= 1000 /\ LogTiny) =>
        /\ LogPost.transform = LogPre.transform
        /\ LogPost.velocity = LogTarget.vel
        /\ LogPost.corr = LogPre.corr
        /\ "insert_ServerCorrection" \notin LogQueuedOps
        /\ LogPre.corr.some => applyLog.val.queued = <<RemoveCorrection>>
        /\ Ran("sync") => ~corr.some

\* a tiny frame that found a correction active, seen after the sync point
C4_Witness ==
    /\ Applied /\ LogRawPosErr <= 1000 /\ LogTiny
    /\ LogPre.corr.some
    /\ LogPre.velocity # LogTarget.vel
    /\ Ran("sync")

\* C5: a correction is active and the frame is neither a snap nor tiny: the
\* same correction stays, its targets become the filtered target, duration is
\* unchanged and elapsed becomes min(elapsed, 0.2).
C5_UpdatedInPlace ==
    (Applied /\ LogPre.corr.some /\ ~LogSnaps /\ ~LogTiny) =>
        /\ LogPost.corr.some
        /\ LogPost.corr.val.target_pos = LogTarget.pos
        /\ LogPost.corr.val.target_rot = LogTarget.rot
        /\ LogPost.corr.val.target_vel = LogTarget.vel
        /\ LogPost.corr.val.duration = LogPre.corr.val.duration
        /\ LogPost.corr.val.elapsed = MinOf(LogPre.corr.val.elapsed, 20)
        /\ applyLog.val.queued = <<>>
        /\ LogPost.transform = LogPre.transform
        /\ LogPost.velocity = LogPre.velocity

\* an update of a correction that had run for more than 0.2 s
C5_Witness ==
    /\ Applied /\ LogPre.corr.some /\ ~LogSnaps /\ ~LogTiny
    /\ LogPre.corr.val.elapsed > 20
    /\ LogPost.corr.val.elapsed = 20

LogDeadBand == Applied /\ ~LogSnaps /\ ~LogTiny /\ ~LogOverEnter

\* C6 (as stated): in the dead band nothing changes, the fields of an active
\* correction included.
C6_DeadBandChangesNothing == LogDeadBand => LogUnchanged

\* C6 (amended): in the dead band position, rotation and velocity are
\* unchanged and no ServerCorrection is created or removed; with none active
\* nothing changes at all, and an active one is kept with its targets set to
\* the filtered target and elapsed capped at 0.2, as in every other frame that
\* is neither a snap nor tiny.
C6_DeadBandKeepsState ==
    LogDeadBand =>
        /\ LogPost.transform = LogPre.transform
        /\ LogPost.velocity = LogPre.velocity
        /\ applyLog.val.queued = <<>>
        /\ LogPost.corr.some = LogPre.corr.some
        /\ ~LogPre.corr.some => LogUnchanged
        /\ LogPre.corr.some =>
              LogPost.corr.val =
                  [LogPre.corr.val EXCEPT !.target_pos = LogTarget.pos,
                                          !.target_rot = LogTarget.rot,
                                          !.target_vel = LogTarget.vel,
                                          !.elapsed = MinOf(@, 20)]

\* a dead-band frame with no correction active and a non-zero error
C6_Witness ==
    /\ LogDeadBand
    /\ ~LogPre.corr.some
    /\ LogPosErr > 0

\* C7 (as stated): the first StateDelta that lists the client's own player,
\* whatever its tick, initialises FilteredServerState in the frame it is
\* reconciled in, with exactly the snapshot's values.
C7_FirstSnapshotInitialises ==
    (/\ pumpLog.some /\ ~pumpLog.val.pre.latest.some
     /\ my_id.some
     /\ applyLog.some /\ applyLog.val.after_pump) =>
        \A i \in ReceivedDeltas :
            LET me == FindPlayer(pumpLog.val.received[i].players, my_id.val)
            IN  me.some =>
                  /\ filtered.initialized
                  /\ filtered.pos = me.val.position
                  /\ filtered.rot = MulRotationY(me.val.orientation, -FRAC_PI_2)
                  /\ filtered.vel = me.val.velocity

\* ---------------------------------------------------------------------------
\* The network pump alone (no submarine systems scheduled): any message may
\* arrive on either channel at any time
\* ---------------------------------------------------------------------------
NetDeliverReliable ==
    /\ UNCHANGED <<serverVars, levelVars>>
    /\ cRan = {}
    /\ Len(clientIn.rel) + Len(clientIn.unrel) < MaxChan
    /\ \E m \in PumpReliableMsgs : clientIn' = [clientIn EXCEPT !.rel = Append(@, m)]
    /\ UNCHANGED <<linkVars, pumpRes, net_stats, pumpLog, reconRes, subVars, corr,
                   net_controlled, commandsC, frameVars, cRan>>

NetDeliverUnreliable ==
    /\ UNCHANGED <<serverVars, levelVars>>
    /\ cRan = {}
    /\ Len(clientIn.rel) + Len(clientIn.unrel) < MaxChan
    /\ \E m \in PumpUnreliableMsgs : clientIn' = [clientIn EXCEPT !.unrel = Append(@, m)]
    /\ UNCHANGED <<linkVars, pumpRes, net_stats, pumpLog, reconRes, subVars, corr,
                   net_controlled, commandsC, frameVars, cRan>>

EndPumpFrame ==
    /\ UNCHANGED <<serverVars, levelVars>>
    /\ cRan = {"pump"}
    /\ cFrame < MaxPumps
    /\ cRan' = {}
    /\ pumpLog' = None
    /\ cFrame' = cFrame + 1
    /\ cNow' = cNow + FrameDts[cDt].ms
    /\ UNCHANGED <<clientIn, linkVars, pumpRes, net_stats, reconRes, subVars, corr,
                   net_controlled, commandsC, controls, serverSub, cDt>>

NetInit ==
    /\ ClientInitBase
    /\ ServerIdle
    /\ LevelIdle
    /\ controls = 0
    /\ serverSub = SpawnSample
    /\ cDt \in 1..Len(FrameDts)

NetNext ==
    \/ pump_network
    \/ ClientConnects
    \/ NetDeliverReliable
    \/ NetDeliverUnreliable
    \/ EndPumpFrame

SpecNet == NetInit /\ [][NetNext]_vars

\* ===========================================================================
\* The server's systems (server/src/main.rs)
\* ===========================================================================
SRan(sys) == sys \in sRan
\* the four Update systems are not ordered among themselves
ServerSystemOpen(sys) == ~crashed /\ ~SRan(sys)

\* clients.0.remove(&client_id)
MapRemove(m, c) == [k \in DOMAIN m \ {c} |-> m[k]]
\* clients.0.insert(client_id, entity)
MapInsert(m, c, e) == [k \in DOMAIN m \cup {c} |-> IF k = c THEN e ELSE m[k]]

\* commands
SpawnCmd(e, player) == [op |-> "spawn", entity |-> e, player |-> player]
DespawnCmd(e) == [op |-> "despawn", entity |-> e]
InsertControlInput(e, ci) == [op |-> "insert_ControlInputComp", entity |-> e, ci |-> ci]
InsertInputSchedule(e, q) == [op |-> "insert_InputSchedule", entity |-> e, sched |-> q]

\* ControlInputComp; t_ms is not a field of the code's struct: it remembers the
\* InputEvent the values came from (None for an InputTick)
ControlInputComp(inp, last_tick, t_ms) ==
    [thrust |-> inp.thrust, yaw |-> inp.yaw, pump_fwd |-> inp.pump_fwd,
     pump_aft |-> inp.pump_aft, last_tick |-> last_tick, t_ms |-> t_ms]

\* the inputs with each axis clamped to [-1, 1]
Clamped(m) ==
    [thrust |-> Clamp(m.thrust), yaw |-> Clamp(m.yaw),
     pump_fwd |-> Clamp(m.pump_fwd), pump_aft |-> Clamp(m.pump_aft)]

\* server.disconnect(client_id): the id leaves clients_id() at once, the
\* ClientDisconnected event is raised by the transport's next update
Disconnect(st, c) ==
    [st EXCEPT !.conn = @ \ {c},
               !.events = Append(@, [type |-> "ClientDisconnected", client_id |-> c,
                                     frame |-> sFrame])]

\* ---- server_handle_events ----
EventVisible(ev) == ev.frame < sFrame

RECURSIVE HandleEvents(_, _)
HandleEvents(st, evs) ==
    IF evs = <<>> THEN st
    ELSE LET ev == Head(evs)
             st1 == IF ev.type = "ClientDisconnected" /\ ev.client_id \in DOMAIN st.clients
                    THEN [st EXCEPT !.clients = MapRemove(@, ev.client_id),
                                    !.cmds = Append(@, DespawnCmd(st.clients[ev.client_id]))]
                    ELSE st
         IN  HandleEvents(st1, Tail(evs))

server_handle_events ==
    /\ ServerSystemOpen("events")
    /\ LET visible == SelectSeq(server_events, EventVisible)
           later == SelectSeq(server_events, LAMBDA ev : ~EventVisible(ev))
           st == HandleEvents([clients |-> ClientEntities, cmds |-> commandsS.events], visible)
       IN  /\ server_events' = later
           /\ ClientEntities' = st.clients
           /\ commandsS' = [commandsS EXCEPT !.events = st.cmds]
    /\ sRan' = sRan \cup {"events"}
    /\ UNCHANGED <<server_clients, serverIn, serverOut, client_proto, sSent, entities,
                   InputEventInbox, crashed, next_uuid, arrivals, timingVars,
                   sNow, sDelta, sFrame, stepLog, physLog>>
    /\ UNCHANGED <<clientVars, levelVars>>

\* ---- server_handle_messages ----
Send(st, c, chan, m) == [st EXCEPT !.out = Append(@, [to |-> c, channel |-> chan, msg |-> m])]

RECURSIVE Broadcast(_, _, _, _)
Broadcast(st, ids, chan, m) ==
    IF ids = {} THEN st
    ELSE LET c == CHOOSE x \in ids : \A y \in ids : x <= y
         IN  Broadcast(Send(st, c, chan, m), ids \ {c}, chan, m)

NewEntity(ents) == CHOOSE e \in Entities : ents[e].status = "free"

\* IncompatibleProtocol { server: PROTOCOL_VERSION, client: hello.protocol }
IncompatibleProtocol(client) ==
    [type |-> "Disconnect", reason |-> "IncompatibleProtocol",
     server |-> PROTOCOL_VERSION, client |-> client]

\* variant: the JoinAck is sent but no submarine is spawned
AcceptHelloAckOnly(st, c) ==
    [Send(st, c, "ReliableOrdered",
          [type |-> "JoinAck", player_id |-> st.next_uuid, tick_hz |-> MaxOf(DefaultTickHz, 1)])
     EXCEPT !.next_uuid = @ + 1]

\* the Hello of a matching build: JoinAck, then the spawn unless the client has one
AcceptHello(st, c) ==
    LET player_uuid == st.next_uuid
        acked == [Send(st, c, "ReliableOrdered",
                       [type |-> "JoinAck", player_id |-> player_uuid,
                        tick_hz |-> MaxOf(DefaultTickHz, 1)])
                  EXCEPT !.next_uuid = @ + 1]
    IN  IF c \in DOMAIN st.clients THEN acked
        ELSE LET e == NewEntity(st.ents)
             IN  [acked EXCEPT !.ents[e].status = "reserved",
                               !.cmds = Append(@, SpawnCmd(e, player_uuid)),
                               !.clients = MapInsert(@, c, e)]

\* variant: the protocol version is not looked at
HandleHelloAnyVersion(st, c, hello) == AcceptHello(st, c)

HandleHello(st, c, hello) ==
    IF hello.protocol # PROTOCOL_VERSION
    THEN Disconnect(Send(st, c, "ReliableOrdered", IncompatibleProtocol(hello.protocol)), c)
    ELSE AcceptHello(st, c)

HandleInputTick(st, c, input) ==
    LET acked == Send(st, c, "ReliableOrdered", [type |-> "InputAck", tick |-> input.tick])
    IN  IF c \in DOMAIN st.clients
        THEN [acked EXCEPT !.cmds = Append(@, InsertControlInput(st.clients[c],
                                       ControlInputComp(Clamped(input), input.tick, None)))]
        ELSE acked

\* protocol::InputEvent; n is its arrival number, which the code does not store
InputEvent(t_ms, inp, n) ==
    [t_ms |-> t_ms, thrust |-> inp.thrust, yaw |-> inp.yaw,
     pump_fwd |-> inp.pump_fwd, pump_aft |-> inp.pump_aft, n |-> n]

HandleInputEvent(st, c, ev) ==
    IF c \in DOMAIN st.clients
    THEN [st EXCEPT !.inbox = Append(@, [entity |-> st.clients[c],
                                         ev |-> InputEvent(ev.t_ms, Clamped(ev),
                                                           st.arrivals + 1)]),
                    !.arrivals = @ + 1]
    ELSE st

HandlePauseRequest(st, req) ==
    Broadcast([st EXCEPT !.paused = req.paused], st.conn, "ReliableOrdered",
              [type |-> "PauseState", paused |-> req.paused])

\* variant: a payload that does not decode ends the connection
HandleMessageStrict(st, c, m) ==
    CASE m.type = "Hello" -> HandleHello(st, c, m)
      [] m.type = "InputTick" -> HandleInputTick(st, c, m)
      [] m.type = "InputEvent" -> HandleInputEvent(st, c, m)
      [] m.type = "PauseRequest" -> HandlePauseRequest(st, m)
      [] OTHER -> Disconnect(st, c)

HandleMessage(st, c, m) ==
    CASE m.type = "Hello" -> HandleHello(st, c, m)
      [] m.type = "InputTick" -> HandleInputTick(st, c, m)
      [] m.type = "InputEvent" -> HandleInputEvent(st, c, m)
      [] m.type = "PauseRequest" -> HandlePauseRequest(st, m)
      [] OTHER -> st

\* while let Some(payload) = server.receive_message(client_id, ReliableOrdered)
RECURSIVE ReceiveAll(_, _, _)
ReceiveAll(st, c, q) ==
    IF q = <<>> THEN st
    ELSE ReceiveAll(HandleMessage(st, c, Head(q)), c, Tail(q))

\* for client_id in server.clients_id()
RECURSIVE ForEachClient(_, _)
ForEachClient(st, ids) ==
    IF ids = {} THEN st
    ELSE LET c == CHOOSE x \in ids : \A y \in ids : x <= y
         IN  ForEachClient(ReceiveAll(st, c, serverIn[c]), ids \ {c})

\* what server_handle_messages reads and writes
MessagesState ==
    [out |-> serverOut, conn |-> server_clients,
     events |-> server_events, clients |-> ClientEntities,
     ents |-> entities, cmds |-> commandsS.messages,
     inbox |-> InputEventInbox, paused |-> SimPaused,
     next_uuid |-> next_uuid, arrivals |-> arrivals]

server_handle_messages ==
    /\ ServerSystemOpen("messages")
    /\ LET st == ForEachClient(MessagesState, server_clients)
       IN  /\ serverOut' = st.out
           /\ server_clients' = st.conn
           /\ server_events' = st.events
           /\ ClientEntities' = st.clients
           /\ entities' = st.ents
           /\ commandsS' = [commandsS EXCEPT !.messages = st.cmds]
           /\ InputEventInbox' = st.inbox
           /\ SimPaused' = st.paused
           /\ next_uuid' = st.next_uuid
           /\ arrivals' = st.arrivals
    /\ serverIn' = [c \in ClientIds |-> IF c \in server_clients THEN <<>> ELSE serverIn[c]]
    /\ sRan' = sRan \cup {"messages"}
    /\ UNCHANGED <<client_proto, sSent, crashed, PhysicsTiming, SnapshotTiming, Tick,
                   sNow, sDelta, sFrame, stepLog, physLog>>
    /\ UNCHANGED <<clientVars, levelVars>>

\* ---- server_physics_tick ----
\* variant: the new event goes in front of queued events of the same t_ms
InsertPositionGeq(q, evc) ==
    LET later == {i \in 1..Len(q) : q[i].t_ms >= evc.t_ms}
    IN  IF later = {} THEN Len(q) + 1 ELSE CHOOSE i \in later : \A j \in later : i <= j

\* sched.0.iter().position(|e| e.t_ms > evc.t_ms).unwrap_or(sched.0.len())
InsertPosition(q, evc) ==
    LET later == {i \in 1..Len(q) : q[i].t_ms > evc.t_ms}
    IN  IF later = {} THEN Len(q) + 1 ELSE CHOOSE i \in later : \A j \in later : i <= j

\* sched.0.insert(pos, evc)
InsertAt(q, pos, evc) == SubSeq(q, 1, pos - 1) \o <<evc>> \o SubSeq(q, pos, Len(q))

\* for (entity, evc) in inbox.0.drain(..)
RECURSIVE DrainInbox(_, _)
DrainInbox(st, inbox) ==
    IF inbox = <<>> THEN st
    ELSE LET e == Head(inbox).entity
             evc == Head(inbox).ev
             ent == st.ents[e]
             st1 == IF ent.status = "alive" /\ ent.sched.some
                    THEN [st EXCEPT !.ents[e].sched =
                              Some(InsertAt(ent.sched.val, InsertPosition(ent.sched.val, evc), evc))]
                    ELSE [st EXCEPT !.cmds = Append(@, InsertInputSchedule(e, <<evc>>))]
         IN  DrainInbox(st1, Tail(inbox))

\* if front.t_ms > now_ms { break; }
Due(front, now_ms) == front.t_ms <= now_ms

\* while let Some(front) = sched.0.front() { ... pop_front ... }
RECURSIVE PopDue(_, _)
PopDue(q, now_ms) ==
    IF q # <<>> /\ Due(Head(q), now_ms)
    THEN LET r == PopDue(Tail(q), now_ms)
         IN  [popped |-> <<Head(q)>> \o r.popped, rest |-> r.rest]
    ELSE [popped |-> <<>>, rest |-> q]

\* variant: the client is disconnected and the despawn queued, the mapping stays
DisconnectCollidedKeepsMapping(st, c, e) ==
    [Disconnect(st, c) EXCEPT !.cmds = Append(@, DespawnCmd(e))]

\* server.disconnect(client_id); if clients.0.remove(&client_id).is_some() { despawn }
DisconnectCollided(st, c, e) ==
    [Disconnect(st, c) EXCEPT !.clients = MapRemove(@, c),
                              !.cmds = Append(@, DespawnCmd(e))]

\* the body of `for (entity, s, spec, input, schedule) in &mut q` for one entity
StepEntity(st, e, now_ms) ==
    LET ent == st.ents[e]
        pd == IF ent.sched.some THEN PopDue(ent.sched.val, now_ms)
              ELSE [popped |-> <<>>, rest |-> <<>>]
        inserts == [i \in 1..Len(pd.popped) |->
                       InsertControlInput(e, ControlInputComp(pd.popped[i], st.tick,
                                                              Some(pd.popped[i].t_ms)))]
        inp == IF ent.input.some
               THEN [thrust |-> ent.input.val.thrust, yaw |-> ent.input.val.yaw,
                     pump_fwd |-> ent.input.val.pump_fwd, pump_aft |-> ent.input.val.pump_aft]
               ELSE DefaultInputs
        s1 == StepSubmarine(ent.state, inp)
        collide == ~Allowed(s1.position)
        owners == {c \in DOMAIN st.clients : st.clients[c] = e}
        st1 == [st EXCEPT !.ents[e].sched = IF ent.sched.some THEN Some(pd.rest) ELSE None,
                          !.ents[e].state = s1,
                          !.cmds = @ \o inserts,
                          !.log = Append(@, [tick |-> st.tick, now_ms |-> now_ms, entity |-> e,
                                             popped |-> pd.popped, inp |-> inp,
                                             inp_t_ms |-> IF ent.input.some
                                                          THEN ent.input.val.t_ms ELSE None,
                                             position |-> s1.position, collide |-> collide,
                                             owned |-> owners # {}])]
    IN  IF collide /\ owners # {}
        THEN DisconnectCollided(st1, CHOOSE x \in owners : TRUE, e)
        ELSE st1

\* the entities the query matches, in the order it yields them
RECURSIVE StepAll(_, _, _)
StepAll(st, es, now_ms) ==
    IF es = {} THEN st
    ELSE LET e == CHOOSE x \in es : \A y \in es : x <= y
         IN  StepAll(StepEntity(st, e, now_ms), es \ {e}, now_ms)

\* one iteration of `while timing.acc >= timing.dt`
OneTick(st, now_ms) ==
    LET drained == [DrainInbox(st, st.inbox) EXCEPT !.inbox = <<>>]
        stepped == StepAll(drained, {e \in Entities : entities[e].status = "alive"}, now_ms)
    IN  [stepped EXCEPT !.acc = @ - PhysicsDt, !.tick = @ + 1]

\* consumes at most one tick in a call
TickLoopOnce(st, now_ms) ==
    IF st.acc >= PhysicsDt THEN OneTick(st, now_ms) ELSE st

RECURSIVE TickLoop(_, _)
TickLoop(st, now_ms) ==
    IF st.acc >= PhysicsDt THEN TickLoop(OneTick(st, now_ms), now_ms) ELSE st

\* what one call did: the flag it saw, the flag the call before it saw, the
\* accumulator and tick counter it started from, and whether it left the world alone
PhysicsCall(st) ==
    [paused |-> SimPaused, prev_paused |-> physLog.paused,
     acc_before |-> PhysicsTiming, tick_before |-> Tick,
     queried |-> {e \in Entities : entities[e].status = "alive"},
     kept |-> /\ st.ents = entities
              /\ st.inbox = InputEventInbox
              /\ st.clients = ClientEntities
              /\ st.cmds = commandsS.physics
              /\ st.log = <<>>]

PausedAccKeeps(acc) == acc

\* timing.acc = 0.0
PausedAcc(acc) == 0

\* if paused.0 { timing.acc = 0.0; return; }
PausedCall(st) == [st EXCEPT !.acc = PausedAcc(PhysicsTiming)]

\* timing.acc += time.delta_secs(); while timing.acc >= timing.dt { ... }
UnpausedCall(st) == TickLoop([st EXCEPT !.acc = PhysicsTiming + sDelta], sNow)

server_physics_tick ==
    /\ ServerSystemOpen("physics")
    /\ sRan' = sRan \cup {"physics"}
    /\ LET st0 == [acc |-> PhysicsTiming, tick |-> Tick,
                   inbox |-> InputEventInbox, ents |-> entities,
                   clients |-> ClientEntities, conn |-> server_clients,
                   events |-> server_events, cmds |-> commandsS.physics,
                   log |-> <<>>]
           st == IF SimPaused THEN PausedCall(st0) ELSE UnpausedCall(st0)
       IN  /\ PhysicsTiming' = st.acc
           /\ Tick' = st.tick
           /\ InputEventInbox' = st.inbox
           /\ entities' = st.ents
           /\ ClientEntities' = st.clients
           /\ server_clients' = st.conn
           /\ server_events' = st.events
           /\ commandsS' = [commandsS EXCEPT !.physics = st.cmds]
           /\ stepLog' = st.log
           /\ physLog' = [paused |-> SimPaused, call |-> Some(PhysicsCall(st))]
    /\ UNCHANGED <<serverIn, serverOut, client_proto, sSent, crashed, next_uuid, arrivals,
                   SimPaused, SnapshotTiming, sNow, sDelta, sFrame>>
    /\ UNCHANGED <<clientVars, levelVars>>

\* ---- server_broadcast_state ----
RECURSIVE PlayersOf(_)
PlayersOf(es) ==
    IF es = {} THEN <<>>
    ELSE LET e == CHOOSE x \in es : \A y \in es : x <= y
         IN  <<[id |-> entities[e].player, position |-> entities[e].state.position]>>
             \o PlayersOf(es \ {e})

server_broadcast_state ==
    /\ ServerSystemOpen("broadcast")
    /\ sRan' = sRan \cup {"broadcast"}
    /\ LET acc == SnapshotTiming + sDelta
       IN  IF acc < SnapshotDt
           THEN /\ SnapshotTiming' = acc
                /\ UNCHANGED serverOut
           ELSE LET delta == [type |-> "StateDelta", tick |-> Tick, server_ms |-> sNow,
                              players |-> PlayersOf({e \in Entities :
                                                        entities[e].status = "alive"})]
                IN  /\ SnapshotTiming' = acc - SnapshotDt
                    /\ serverOut' = Broadcast([out |-> serverOut], server_clients,
                                              "Unreliable", delta).out
    /\ UNCHANGED <<server_clients, server_events, serverIn, client_proto, sSent, worldVars,
                   SimPaused, PhysicsTiming, Tick, sNow, sDelta, sFrame, stepLog, physLog>>
    /\ UNCHANGED <<clientVars, levelVars>>

\* ---- deferred commands: applied when the Update schedule ends ----
\* insert on an entity that does not exist panics; despawn of one only warns
ApplyCommand(w, cmd) ==
    LET e == cmd.entity
        exists == w.ents[e].status = "alive"
    IN  CASE cmd.op = "spawn" ->
                [w EXCEPT !.ents[e] = [status |-> "alive", player |-> cmd.player,
                                       state |-> SpawnState, input |-> None, sched |-> None]]
          [] cmd.op = "insert_ControlInputComp" ->
                IF exists THEN [w EXCEPT !.ents[e].input = Some(cmd.ci)]
                ELSE [w EXCEPT !.crashed = TRUE]
          [] cmd.op = "insert_InputSchedule" ->
                IF exists THEN [w EXCEPT !.ents[e].sched = Some(cmd.sched)]
                ELSE [w EXCEPT !.crashed = TRUE]
          [] cmd.op = "despawn" ->
                IF exists THEN [w EXCEPT !.ents[e].status = "dead"] ELSE w

RECURSIVE ApplyCommands(_, _)
ApplyCommands(w, cmds) ==
    IF cmds = <<>> \/ w.crashed THEN w
    ELSE ApplyCommands(ApplyCommand(w, Head(cmds)), Tail(cmds))

\* the order in which the systems' buffers are applied is the schedule's
CommandOrders ==
    {o \in [1..3 -> {"events", "messages", "physics"}] : \A i, j \in 1..3 : i # j => o[i] # o[j]}

AllServerSystems == {"events", "messages", "physics", "broadcast"}

ServerEndOfUpdate ==
    /\ ~crashed
    /\ sRan = AllServerSystems
    /\ \E o \in CommandOrders :
          LET w == ApplyCommands([ents |-> entities, crashed |-> FALSE],
                                 commandsS[o[1]] \o commandsS[o[2]] \o commandsS[o[3]])
          IN  /\ entities' = w.ents
              /\ crashed' = w.crashed
    /\ commandsS' = NoCommands
    /\ serverOut' = <<>>
    /\ stepLog' = <<>>
    /\ physLog' = [physLog EXCEPT !.call = None]
    /\ sRan' = {}
    /\ sFrame' = sFrame + 1
    /\ sNow' = sNow + sDelta
    /\ UNCHANGED sDelta
    /\ UNCHANGED <<server_clients, server_events, serverIn, client_proto, sSent,
                   ClientEntities, InputEventInbox, next_uuid, arrivals, timingVars>>
    /\ UNCHANGED <<clientVars, levelVars>>

EndServerFrame == sFrame < MaxServerFrames /\ ServerEndOfUpdate

\* ---- the clients of the server ----
\* a client connects at the transport level, running a build of some version
TransportConnects ==
    /\ ~crashed
    /\ sRan = {}
    /\ \E c \in ClientIds, p \in {PROTOCOL_VERSION, PROTOCOL_VERSION - 1} :
          /\ client_proto[c] = 0
          /\ client_proto' = [client_proto EXCEPT ![c] = p]
          /\ server_clients' = server_clients \cup {c}
          /\ server_events' = Append(server_events,
                                     [type |-> "ClientConnected", client_id |-> c,
                                      frame |-> sFrame - 1])
    /\ UNCHANGED <<serverIn, serverOut, sSent, worldVars, timingVars, sFrameVars>>
    /\ UNCHANGED <<clientVars, levelVars>>

\* the client has its JoinAck and its entity is in the world
Joined(c) == c \in DOMAIN ClientEntities /\ entities[ClientEntities[c]].status = "alive"

HelloMsg(p) == [type |-> "Hello", protocol |-> p]

\* what a client may send now: a build of another version sends its Hello and
\* nothing else; inputs and pause requests are sent once the client has joined
ClientPayloads(c) ==
    IF client_proto[c] # PROTOCOL_VERSION
    THEN IF serverIn[c] = <<>> THEN {HelloMsg(client_proto[c])} ELSE {}
    ELSE {HelloMsg(PROTOCOL_VERSION), [type |-> "Undecodable"]}
         \cup IF Joined(c)
              THEN {[type |-> "InputTick", tick |-> 1] @@ DiveInputs}
                   \cup {[type |-> "InputEvent", t_ms |-> sNow + k.lead] @@ k.inputs :
                            k \in EventKinds}
                   \cup {[type |-> "PauseRequest", paused |-> ~SimPaused]}
              ELSE {}

ClientSends ==
    /\ ~crashed
    /\ sRan = {}
    /\ sSent < MaxSends
    /\ \E c \in server_clients :
          /\ Len(serverIn[c]) < MaxInbound
          /\ \E m \in ClientPayloads(c) :
                serverIn' = [serverIn EXCEPT ![c] = Append(@, m)]
    /\ sSent' = sSent + 1
    /\ UNCHANGED <<server_clients, server_events, serverOut, client_proto, worldVars,
                   timingVars, sFrameVars>>
    /\ UNCHANGED <<clientVars, levelVars>>

ServerInit ==
    /\ ServerInitBase
    /\ LevelIdle
    /\ sDelta \in FrameDeltas
    /\ ClientInitBase
    /\ serverSub = SpawnSample
    /\ cDt = 1
    /\ controls = 0

ServerNext ==
    \/ server_handle_events
    \/ server_handle_messages
    \/ server_physics_tick
    \/ server_broadcast_state
    \/ EndServerFrame
    \/ TransportConnects
    \/ ClientSends

SpecServer == ServerInit /\ [][ServerNext]_vars

\* ===========================================================================
\* The server with a client that joins, dives out of the tunnel and leaves:
\* followed for MaxBoundsFrames frames, so that the frames after a bounds
\* violation are part of the run.
\* ===========================================================================
\* server frames explored
MaxBoundsFrames == 4

\* a connected client sends its Hello, and once it has joined an InputTick
\* that fills the forward tank
ClientDives ==
    /\ ~crashed
    /\ sRan = {}
    /\ sSent < MaxSends
    /\ \E c \in server_clients :
          /\ client_proto[c] = PROTOCOL_VERSION
          /\ serverIn[c] = <<>>
          /\ \/ /\ c \notin DOMAIN ClientEntities
                /\ serverIn' = [serverIn EXCEPT ![c] = <<HelloMsg(PROTOCOL_VERSION)>>]
             \/ /\ Joined(c)
                /\ serverIn' = [serverIn EXCEPT ![c] =
                                   <<[type |-> "InputTick", tick |-> 1] @@ DiveInputs>>]
    /\ sSent' = sSent + 1
    /\ UNCHANGED <<server_clients, server_events, serverOut, client_proto, worldVars,
                   timingVars, sFrameVars>>
    /\ UNCHANGED <<clientVars, levelVars>>

\* a client goes away or times out: the transport reports ClientDisconnected
\* in the frame that follows
TransportLeaves ==
    /\ ~crashed
    /\ sRan = {}
    /\ \E c \in server_clients :
          /\ server_clients' = server_clients \ {c}
          /\ server_events' = Append(server_events,
                                     [type |-> "ClientDisconnected", client_id |-> c,
                                      frame |-> sFrame - 1])
    /\ UNCHANGED <<serverIn, serverOut, client_proto, sSent, worldVars, timingVars, sFrameVars>>
    /\ UNCHANGED <<clientVars, levelVars>>

BoundsEndFrame == sFrame < MaxBoundsFrames /\ ServerEndOfUpdate

BoundsNext ==
    \/ server_handle_events
    \/ server_handle_messages
    \/ server_physics_tick
    \/ server_broadcast_state
    \/ BoundsEndFrame
    \/ TransportConnects
    \/ TransportLeaves
    \/ ClientDives

SpecBounds == ServerInit /\ [][BoundsNext]_vars

\* ===========================================================================
\* A session: one client and the server run together, joined by the two
\* renet channels.  The client's NetSet systems and the command sync point
\* that follows them are scheduled; both applications keep taking frames, and
\* neither gets more than one frame ahead of the other.  The session is
\* followed until the handshake has completed.
\* ===========================================================================
\* frames each side takes in a session
MaxSessionFrames == 7

\* the one client of a session
SessionClient == CHOOSE c \in ClientIds : TRUE

\* the client has its JoinAck, the server holds its entity and the filter is
\* initialised from a snapshot that lists the client's player
Handshaken ==
    /\ hello_sent
    /\ my_id.some
    /\ Joined(SessionClient)
    /\ entities[ClientEntities[SessionClient]].player = my_id.val
    /\ filtered.initialized

\* protocol::decode on the client of what protocol::encode wrote on the
\* server: a NetPlayer in the units of the client model (cm from the spawn
\* point along the tunnel, heading and speed as at the spawn)
DecodeNetPlayer(pl) ==
    NetPlayer(pl.id, [position |-> 100 * (pl.position.x - SpawnState.position.x),
                      orientation |-> SpawnSample.orientation,
                      velocity |-> SpawnSample.velocity])

DecodeServerToClient(m) ==
    IF m.type = "StateDelta"
    THEN [type |-> "StateDelta", tick |-> m.tick, server_ms |-> m.server_ms,
          players |-> [i \in 1..Len(m.players) |-> DecodeNetPlayer(m.players[i])]]
    ELSE m

\* the payloads the server sent to c on a channel in the frame, as the
\* client will read them
RECURSIVE Outbound(_, _, _)
Outbound(out, c, chan) ==
    IF out = <<>> THEN <<>>
    ELSE LET h == Head(out)
         IN  (IF h.to = c /\ h.channel = chan THEN <<DecodeServerToClient(h.msg)>> ELSE <<>>)
             \o Outbound(Tail(out), c, chan)

\* end of the server's Update and the transport update that follows it: the
\* command buffers are applied, what was sent goes out, what the client sent
\* comes in
SessionEndServerFrame ==
    /\ ~Handshaken
    /\ ~crashed
    /\ sRan = AllServerSystems
    /\ sFrame < MaxSessionFrames
    /\ sFrame <= cFrame
    /\ \E o \in CommandOrders :
          LET w == ApplyCommands([ents |-> entities, crashed |-> FALSE],
                                 commandsS[o[1]] \o commandsS[o[2]] \o commandsS[o[3]])
          IN  /\ entities' = w.ents
              /\ crashed' = w.crashed
    /\ commandsS' = NoCommands
    /\ clientIn' = [rel |-> clientIn.rel \o Outbound(serverOut, SessionClient, "ReliableOrdered"),
                    unrel |-> clientIn.unrel \o Outbound(serverOut, SessionClient, "Unreliable")]
    /\ serverOut' = <<>>
    /\ serverIn' = [serverIn EXCEPT ![SessionClient] = @ \o clientOut]
    /\ clientOut' = <<>>
    /\ stepLog' = <<>>
    /\ physLog' = [physLog EXCEPT !.call = None]
    /\ sRan' = {}
    /\ sFrame' = sFrame + 1
    /\ sNow' = sNow + sDelta
    /\ UNCHANGED <<sDelta, server_clients, server_events, client_proto, sSent,
                   ClientEntities, InputEventInbox, next_uuid, arrivals, timingVars>>
    /\ UNCHANGED <<connected, hello_sent, pumpRes, net_stats, pumpLog, reconRes,
                   subVars, corr, net_controlled, commandsC, frameVars, cRan, levelVars>>

\* end of the client's Update
SessionEndClientFrame ==
    /\ UNCHANGED <<serverVars, levelVars>>
    /\ ~Handshaken
    /\ Ran("sync")
    /\ cFrame < MaxSessionFrames
    /\ cFrame <= sFrame
    /\ corr' = CorrAfter(corr, commandsC)
    /\ net_controlled' = NetControlledAfter(net_controlled, commandsC)
    /\ commandsC' = <<>>
    /\ cRan' = {}
    /\ outcome' = "none"
    /\ applyLog' = None
    /\ pumpLog' = None
    /\ NextFrameInputs
    /\ UNCHANGED <<clientIn, linkVars, pumpRes, net_stats, filtered, tsync, subVars>>

Undecodable == [type |-> "Undecodable"]

\* bytes that protocol::decode rejects turn up in front of the server (behind
\* or ahead of what is waiting) or of the client, at most one such payload per
\* queue at a time
NoiseArrives ==
    /\ \/ /\ sRan = {}
          /\ Undecodable \notin {serverIn[SessionClient][i] : i \in 1..Len(serverIn[SessionClient])}
          /\ \/ serverIn' = [serverIn EXCEPT ![SessionClient] = Append(@, Undecodable)]
             \/ serverIn' = [serverIn EXCEPT ![SessionClient] = <<Undecodable>> \o @]
          /\ UNCHANGED clientIn
       \/ /\ cRan = {}
          /\ \E ch \in {"rel", "unrel"} :
                /\ Undecodable \notin {clientIn[ch][i] : i \in 1..Len(clientIn[ch])}
                /\ clientIn' = [clientIn EXCEPT ![ch] = Append(@, Undecodable)]
          /\ UNCHANGED serverIn
    /\ UNCHANGED <<server_clients, server_events, serverOut, client_proto, sSent, worldVars,
                   timingVars, sFrameVars>>
    /\ UNCHANGED <<linkVars, pumpRes, net_stats, pumpLog, reconRes, subVars, corr,
                   net_controlled, commandsC, frameVars, cRan, levelVars>>

\* the netcode handshake has just completed: the server lists the client and
\* client.is_connected() is true
SessionInit ==
    /\ ServerResources
    /\ LevelIdle
    /\ server_clients = {SessionClient}
    /\ server_events = <<[type |-> "ClientConnected", client_id |-> SessionClient,
                          frame |-> sFrame - 1]>>
    /\ client_proto = [c \in ClientIds |-> PROTOCOL_VERSION]
    /\ sDelta \in FrameDeltas
    /\ ClientResources
    /\ connected = TRUE
    /\ serverSub = SpawnSample
    /\ cDt = 1
    /\ controls = 0

\* the systems of the two applications share no state, so how they interleave
\* within a frame is not distinguished: one application takes a frame while
\* the other is between two frames
SessionClientSystems ==
    /\ sRan = {}
    /\ cFrame <= sFrame
    /\ \/ pump_network
       \/ apply_state_to_sub
       \/ apply_deferred

SessionServerSystems ==
    /\ cRan = {}
    /\ sFrame <= cFrame
    /\ \/ server_handle_events
       \/ server_handle_messages
       \/ server_physics_tick
       \/ server_broadcast_state

\* the steps of the two applications
SessionSteps ==
    \/ SessionClientSystems
    \/ SessionEndClientFrame
    \/ SessionServerSystems
    \/ SessionEndServerFrame

SessionNext ==
    \/ SessionSteps
    \/ NoiseArrives

\* a system of either application is ready to run
SystemsPending ==
    \/ sRan = {} /\ cFrame <= sFrame /\ ~Ran("sync")
    \/ cRan = {} /\ sFrame <= cFrame /\ ~crashed /\ sRan # AllServerSystems

\* a system of either application runs
SystemRuns ==
    \/ cRan' # cRan /\ cRan' # {}
    \/ sRan' # sRan /\ sRan' # {}

\* App::run keeps taking frames and runs every system of Update in each
\* frame; renet hands over what was sent at the next transport update.  The
\* frame ends are weakly fair; so are the systems, whose weak fairness is
\* written out with the enabling condition of SessionClientSystems and
\* SessionServerSystems spelled out.
SessionFairness ==
    /\ WF_vars(SessionEndClientFrame)
    /\ WF_vars(SessionEndServerFrame)
    /\ ([]<>~SystemsPending) \/ ([]<><<SystemRuns>>_vars)

SpecSession == SessionInit /\ [][SessionNext]_vars /\ SessionFairness

\* ---------------------------------------------------------------------------
\* The ballast pumps of step_submarine (levels/src/submarine_physics/dynamics.rs)
\* ---------------------------------------------------------------------------
\* An f32 is a record: a finite value in thousandths, or NaN.  Fills are
\* thousandths of a full tank, pump speeds thousandths of full speed.
F32(v) == [nan |-> FALSE, v |-> v]
NaN == [nan |-> TRUE, v |-> 0]

\* f32::clamp: NaN if self is NaN, else self limited to lo..hi
f32_clamp(x, lo, hi) == IF x.nan THEN NaN ELSE F32(MaxOf(lo, MinOf(hi, x.v)))

\* the sum of two f32 values
f32_add(a, b) == IF a.nan \/ b.nan THEN NaN ELSE F32(a.v + b.v)

\* let pump_rate_per_s = 0.2_f32, in thousandths of a tank per second
pump_rate_per_s == 200

\* pump * pump_rate_per_s * dt for a pump speed already clamped, dt in ms
PumpedIn(pump, dt) ==
    IF pump.nan THEN NaN ELSE F32((pump.v * pump_rate_per_s * dt) \div 1000000)

\* (fill + pump.clamp(-1.0, 1.0) * pump_rate_per_s * dt).clamp(0.0, 1.0)
TankAfter(fill, pump, dt) ==
    f32_clamp(f32_add(fill, PumpedIn(f32_clamp(pump, -1000, 1000), dt)), 0, 1000)

\* the ballast part of step_submarine_dbg: nothing for dt <= 0, and only the
\* first two tanks of a SubState that has at least two are pumped
IntegrateBallast(fill, inputs, dt) ==
    IF dt <= 0 THEN fill
    ELSE IF Len(fill) >= 2
         THEN [fill EXCEPT ![1] = TankAfter(fill[1], inputs.pump_fwd, dt),
                           ![2] = TankAfter(fill[2], inputs.pump_aft, dt)]
         ELSE fill

\* fills a SubState starts with: empty, half full (the spawn value), full
FillSamples == {F32(0), F32(500), F32(1000)}

\* pump speeds a caller passes: inside and outside -1..1, and NaN, which
\* bincode decodes from an InputTick like any other f32
PumpInputs == {F32(-2000), F32(500), NaN}

\* dt of a call in ms: the early return, one second, and a step long enough
\* to fill a tank from empty
StepDts == {-250, 0, 1000, 6000}

\* step_submarine(level, spec, inputs, &mut state, dt, time)
step_submarine ==
    \E pf \in PumpInputs, pa \in PumpInputs, dt \in StepDts :
        LET inputs == [pump_fwd |-> pf, pump_aft |-> pa]
        IN  /\ ballast_fill' = IntegrateBallast(ballast_fill, inputs, dt)
            /\ ballastLog' = Some([before |-> ballast_fill, inputs |-> inputs, dt |-> dt])
            /\ UNCHANGED <<clientVars, serverVars, hull, hullCall, flowCall, pauseVars>>

\* a SubState with up to MaxTanks tanks, each filled within 0..1; the client
\* and the server are not part of the run
BallastInit ==
    /\ \E n \in 0..MaxTanks : ballast_fill \in [1..n -> FillSamples]
    /\ ballastLog = None
    /\ HullIdle
    /\ ClientInitBase
    /\ ServerIdle
    /\ controls = 0
    /\ serverSub = SpawnSample
    /\ cDt = 1

BallastNext == step_submarine

SpecBallast == BallastInit /\ [][BallastNext]_vars

\* ---------------------------------------------------------------------------
\* The rigid body of step_submarine (levels/src/submarine_physics/dynamics.rs)
\* ---------------------------------------------------------------------------
\* Units: force N, torque and angular momentum in tenths of N*m and N*m*s,
\* rates mrad/s, angles urad, speed cm/s, position cm, mass in units of 10 g,
\* dt ms, inputs and fills in thousandths.  The hull that is stepped is level
\* at heading 0 and moves along its forward axis through still water, so the
\* body axes are the world axes and q * v = v.

\* a quotient rounded toward zero, as a float product scaled back
Quot(a, b) == IF a >= 0 THEN a \div b ELSE -((-a) \div b)

\* a > b and a < b on f32: false when either side is NaN
f32_gt(a, b) == ~a.nan /\ ~b.nan /\ a.v > b.v
f32_lt(a, b) == ~a.nan /\ ~b.nan /\ a.v < b.v

\* subspecs::small_skiff_spec(): ixx = 0.5 m r^2, iyy = izz = m (3 r^2 + l^2) / 12,
\* nr_v and n_delta_r in thousandths, drag_x = 0.5 rho cxd s_forward
small_skiff_spec ==
    [m |-> 1200, ixx |-> 150, iyy |-> 975, izz |-> 975,
     kr |-> 400, kr2 |-> 120, kq |-> 200, nr_v |-> 20,
     t_max |-> 1200, n_delta_r |-> 6, n_beta |-> 100, n_ws |-> 600,
     length |-> 3, s_side |-> 3, xu |-> 30, drag_x |-> 141,
     cb_offset_body |-> [x |-> 0, y |-> 120, z |-> 0],
     ballast_tanks |-> << [pos_body |-> [x |-> 900,  y |-> 0, z |-> 0], capacity_kg |-> 80],
                          [pos_body |-> [x |-> -900, y |-> 0, z |-> 0], capacity_kg |-> 80] >>]

\* spec.kp: read by torque_roll_linear_damping, set to 9.0 by a test; the
\* SubPhysicsSpec of this tree has no such field, so both no damping and the
\* test's value are taken
RollDampings == {0, 9}

\* let rho = 1025.0_f32
rho == 1025

\* 9.81_f32 in cm/s^2
g_cm == 981

\* let q = 0.5 * rho * (u_rel * u_rel), u_rel in cm/s
DynamicPressure(u_rel) == Quot(rho * u_rel * u_rel, 20000)

\* let sign_u = if u_rel >= 0.0 { 1.0 } else { -1.0 }
sign_u(u_rel) == IF u_rel >= 0 THEN 1 ELSE -1

\* let front_mount_gain = if u_rel < 0.0 { 2.0 } else { 1.0 }
front_mount_gain(u_rel) == IF u_rel < 0 THEN 2 ELSE 1

\* -yaw_in * sign_u * front_mount_gain * n_delta_r * q_dyn * s_side * length
torque_yaw_control(spec, yaw_in, su, gain, q_dyn) ==
    IF yaw_in.nan THEN NaN
    ELSE F32(Quot(-yaw_in.v * su * gain * spec.n_delta_r * q_dyn * spec.s_side * spec.length,
                  100000))

\* -spec.kr * r_yaw
torque_yaw_damping_linear(spec, r_yaw) == Quot(-spec.kr * r_yaw, 100)

\* -spec.kr2 * r_yaw.abs() * r_yaw
torque_yaw_damping_quadratic(spec, r_yaw) == Quot(-spec.kr2 * Quot(Abs(r_yaw) * r_yaw, 1000), 100)

\* -spec.nr_v * q_dyn * r_yaw
torque_yaw_damping_dynamic(spec, q_dyn, r_yaw) == Quot(-spec.nr_v * q_dyn * r_yaw, 100000)

\* spec.n_ws * (w_cpl * w_cpl.abs()) * 0.5 * rho * s_side * length
torque_sideslip_ws(spec, w_cpl) ==
    Quot(Quot(spec.n_ws * w_cpl * Abs(w_cpl), 1000) * rho * spec.s_side * spec.length, 20000)

\* cross_y.atan2(dot.abs()).clamp(-0.7, 0.7) for a water-relative velocity
\* without a lateral part: cross_y = 0
yaw_err(rel) == CASE rel.x = 0 -> 0

\* spec.n_beta * q_dyn * spec.s_side * spec.length * yaw_err
torque_weathervane_beta(spec, q_dyn, ye) ==
    Quot(spec.n_beta * q_dyn * spec.s_side * spec.length * ye, 100000)

\* -spec.kq * omega_x
torque_pitch_linear_damping(spec, omega_x) == Quot(-spec.kq * omega_x, 100)

\* -spec.kp * omega_z
torque_roll_linear_damping(kp, omega_z) == Quot(-kp * omega_z, 100)

\* cap * fill of tank i, fill clamped to 0..1, in units of 10 g
TankMass(spec, fill, i) ==
    IF i <= Len(fill)
    THEN (spec.ballast_tanks[i].capacity_kg * f32_clamp(fill[i], 0, 1000).v) \div 10
    ELSE 0

RECURSIVE SumOver(_, _)
SumOver(f, n) == IF n = 0 THEN 0 ELSE f[n] + SumOver(f, n - 1)

\* compute_cg_body_current: the centre of gravity in the body frame, mm
compute_cg_body_current(spec, fill) ==
    LET n       == Len(spec.ballast_tanks)
        mass    == [i \in 1..n |-> TankMass(spec, fill, i)]
        m_total == spec.m * 100 + SumOver(mass, n)
    IN  [x |-> Quot(SumOver([i \in 1..n |-> spec.ballast_tanks[i].pos_body.x * mass[i]], n), m_total),
         y |-> Quot(SumOver([i \in 1..n |-> spec.ballast_tanks[i].pos_body.y * mass[i]], n), m_total),
         z |-> Quot(SumOver([i \in 1..n |-> spec.ballast_tanks[i].pos_body.z * mass[i]], n), m_total)]

\* the part of the moment r x (0, f_y, 0) = (-r.z f_y, 0, r.x f_y) along a
\* body axis of the level hull, r in mm and f_y in N
MomentAbout(r, f_y, axis) ==
    CASE axis = "right"   -> Quot(-r.z * f_y, 100)
      [] axis = "forward" -> Quot(r.x * f_y, 100)

\* torque_from_ballast_gravity_about_axis: the weight -m g of every tank that
\* holds water, at its offset from the centre of gravity
torque_from_ballast_gravity_about_axis(spec, fill, cg, axis) ==
    LET n   == Len(spec.ballast_tanks)
        tau == [i \in 1..n |->
                  LET m == TankMass(spec, fill, i)
                      p == spec.ballast_tanks[i].pos_body
                      r == [x |-> p.x - cg.x, y |-> p.y - cg.y, z |-> p.z - cg.z]
                  IN  IF m <= 0 THEN 0 ELSE MomentAbout(r, -Quot(m * g_cm, 10000), axis)]
    IN  SumOver(tau, n)

\* torque_from_cob_buoyancy_about_axis: the buoyancy at cb_offset_body
torque_from_cob_buoyancy_about_axis(spec, axis, buoyancy) ==
    MomentAbout(spec.cb_offset_body, buoyancy, axis)

\* omega_body = ang_mom * inv_i, with inv_i = 0 unless the inertia is positive
BodyRate(l, inertia) ==
    IF l.nan THEN NaN ELSE IF inertia > 0 THEN F32(Quot(l.v * 100, inertia)) ELSE F32(0)

\* if ang_mom > l_max { ang_mom = l_max }  if ang_mom < -l_max { ang_mom = -l_max }
ClampMomentum(l, l_max) ==
    LET a == IF f32_gt(l, F32(l_max)) THEN F32(l_max) ELSE l
    IN  IF f32_lt(a, F32(-l_max)) THEN F32(-l_max) ELSE a

\* let q_max = 0.5, let r_max = 0.6, in mrad/s
q_max == 500
r_max == 600

\* l + ldot * dt
Integrate(l, ldot, dt) == f32_add(l, IF ldot.nan THEN NaN ELSE F32(Quot(ldot.v * dt, 1000)))

\* yaw_of of the rudder tests, fwd.x.atan2(fwd.z) for fwd = q * (0, 0, 1): the
\* hull has turned by pitch about body right, then yaw about body up, then
\* roll, all less than a quarter turn, so fwd.x = sin(yaw), fwd.z > 0, and the
\* angle has the sign of yaw; urad, taken as yaw itself
yaw_of(orientation) == IF orientation.nan THEN NaN ELSE F32(orientation.yaw)

\* quat_to_yaw: (-fwd.x).atan2(fwd.z)
quat_to_yaw(orientation) == IF orientation.nan THEN NaN ELSE F32(-orientation.yaw)

\* the fields of SubStepDebug that the model keeps
SubStepDebug(dt, inputs, tau_control, r, orientation) ==
    [dt |-> dt, inputs |-> inputs, tau_control |-> tau_control, yaw_rate |-> r,
     heading_yaw |-> quat_to_yaw(orientation)]

\* the debug sink leaks into the step: the pitch it reports is taken out of
\* the orientation
LeakDebug(state, dbg) ==
    IF dbg THEN [state EXCEPT !.orientation.pitch = 0] ELSE state

\* the state does not depend on the debug sink
KeepState(state, dbg) == state

\* step_submarine_dbg(level, spec, inputs, state, dt, time, dbg) for a level
\* hull in still water; kp is spec.kp, dbg tells whether a sink is supplied.
\* The result is the state and what the sink received.
step_submarine_dbg(spec, kp, inputs, state, dt, dbg) ==
    IF dt <= 0 THEN [state |-> state, dbg |-> None]
    ELSE
    LET fill     == IntegrateBallast(state.ballast_fill, inputs, dt)
        n        == Len(spec.ballast_tanks)
        ballast  == SumOver([i \in 1..n |-> TankMass(spec, fill, i)], n)
        capacity == SumOver([i \in 1..n |-> spec.ballast_tanks[i].capacity_kg * 100], n)
        m_eff    == MaxOf(spec.m * 100 + ballast, 1)
        buoyancy == Quot((spec.m * 100 + (capacity \div 2)) * g_cm, 10000)
        buoy_net == buoyancy - Quot(m_eff * g_cm, 10000)
        thrust   == Quot(spec.t_max * f32_clamp(inputs.thrust, -1000, 1000).v, 1000)
        rel      == state.velocity
        u_rel    == rel.z
        q        == DynamicPressure(u_rel)
        yaw_in   == f32_clamp(inputs.yaw, -1000, 1000)
        tau_c    == torque_yaw_control(spec, yaw_in, sign_u(u_rel), front_mount_gain(u_rel), q)
        l        == state.ang_mom
        omega    == [x |-> BodyRate(l.x, spec.ixx).v, y |-> BodyRate(l.y, spec.iyy).v,
                     z |-> BodyRate(l.z, spec.izz).v]
        r        == omega.y
        tau_yaw  == f32_add(tau_c,
                      F32(torque_yaw_damping_linear(spec, r)
                          + torque_yaw_damping_quadratic(spec, r)
                          + torque_yaw_damping_dynamic(spec, q, r)
                          + torque_sideslip_ws(spec, rel.x)
                          + torque_weathervane_beta(spec, q, yaw_err(rel))))
        cg       == compute_cg_body_current(spec, fill)
        tau_p    == torque_from_ballast_gravity_about_axis(spec, fill, cg, "right")
                    + torque_from_cob_buoyancy_about_axis(spec, "right", buoyancy)
                    + torque_pitch_linear_damping(spec, omega.x)
        tau_r    == torque_from_ballast_gravity_about_axis(spec, fill, cg, "forward")
                    + torque_from_cob_buoyancy_about_axis(spec, "forward", buoyancy)
                    + torque_roll_linear_damping(kp, omega.z)
        cross    == [x |-> Quot(omega.y * l.z.v - omega.z * l.y.v, 1000),
                     y |-> Quot(omega.z * l.x.v - omega.x * l.z.v, 1000),
                     z |-> Quot(omega.x * l.y.v - omega.y * l.x.v, 1000)]
        ldot     == [x |-> F32(tau_p - cross.x),
                     y |-> f32_add(tau_yaw, F32(-cross.y)),
                     z |-> F32(tau_r - cross.z)]
        ang_mom  == [x |-> ClampMomentum(Integrate(l.x, ldot.x, dt), Quot(spec.ixx * q_max, 100)),
                     y |-> ClampMomentum(Integrate(l.y, ldot.y, dt), Quot(spec.iyy * r_max, 100)),
                     z |-> Integrate(l.z, ldot.z, dt)]
        rate     == [x |-> BodyRate(ang_mom.x, spec.ixx), y |-> BodyRate(ang_mom.y, spec.iyy),
                     z |-> BodyRate(ang_mom.z, spec.izz)]
        turned   == IF rate.y.nan
                    THEN [nan |-> TRUE, pitch |-> 0, yaw |-> 0, roll |-> 0]
                    ELSE [nan |-> FALSE, pitch |-> rate.x.v * dt,
                          yaw |-> rate.y.v * dt, roll |-> rate.z.v * dt]
        drag_x   == -(Quot(spec.drag_x * Abs(u_rel) * u_rel, 10000) + Quot(spec.xu * u_rel, 100))
        a        == [x |-> Quot(-u_rel * r, 1000),
                     y |-> Quot(buoy_net * 10000, m_eff),
                     z |-> Quot((thrust + drag_x) * 10000, m_eff)]
        vel      == [x |-> state.velocity.x + Quot(a.x * dt, 1000),
                     y |-> state.velocity.y + Quot(a.y * dt, 1000),
                     z |-> state.velocity.z + Quot(a.z * dt, 1000)]
        pos      == [x |-> state.position.x + Quot(vel.x * dt, 1000),
                     y |-> state.position.y + Quot(vel.y * dt, 1000),
                     z |-> state.position.z + Quot(vel.z * dt, 1000)]
        after    == [position |-> pos, velocity |-> vel, orientation |-> turned,
                     ang_mom |-> ang_mom, ballast_fill |-> fill]
    IN  [state |-> KeepState(after, dbg),
         dbg   |-> IF dbg THEN Some(SubStepDebug(dt, inputs, tau_c, rate.y, turned)) ELSE None]

\* what the hull is doing before the call: thrust ahead at 2 m/s or astern at
\* 2 m/s, as the two rudder tests have it after their warm-up
Runs == {[thrust |-> 500, surge |-> 200], [thrust |-> -600, surge |-> -200]}

\* rudder inputs: none, right, left, beyond full right, and NaN
YawCommands == {F32(0), F32(300), F32(-300), F32(2500), NaN}

\* angular momentum before the call, per axis: at rest, inside the clamp,
\* beyond it
PriorPitchMomenta == {0, 900}
PriorYawMomenta == {0, -3000, 7000}
PriorRollMomenta == {0, 20000}

\* forward and aft fills before the call
PriorFills == {<<F32(0), F32(0)>>, <<F32(500), F32(500)>>, <<F32(1000), F32(0)>>}

\* dt of the call in ms: the early return, a tenth of a second, a second
HullDts == {0, 100, 1000}

\* the two SubStates that are stepped
Copies == {1, 2}

\* one call of step_submarine (no sink) or step_submarine_dbg (with a sink) on
\* a SubState that has not been stepped yet
step_hull ==
    /\ hullCall.some
    /\ \E c \in Copies, dbg \in BOOLEAN :
          /\ ~hullCall.val.done[c]
          /\ LET call == hullCall.val
                 out  == step_submarine_dbg(small_skiff_spec, call.kp, call.inputs,
                                            hull[c], call.dt, dbg)
             IN  /\ hull' = [hull EXCEPT ![c] = out.state]
                 /\ hullCall' = Some([call EXCEPT !.done[c] = TRUE, !.sink[c] = dbg,
                                                  !.dbg[c] = out.dbg])
    /\ UNCHANGED <<clientVars, serverVars, ballast_fill, ballastLog, flowCall, pauseVars>>

\* two identical SubStates of a level hull and one set of arguments
HullInit ==
    /\ \E run \in Runs, lx \in PriorPitchMomenta, ly \in PriorYawMomenta,
          lz \in PriorRollMomenta, fill \in PriorFills,
          yaw \in YawCommands, dt \in HullDts, kp \in RollDampings :
          /\ hull = [c \in Copies |->
                       [position |-> [x |-> 0, y |-> 0, z |-> 0],
                        velocity |-> [x |-> 0, y |-> 0, z |-> run.surge],
                        orientation |-> [nan |-> FALSE, pitch |-> 0, yaw |-> 0, roll |-> 0],
                        ang_mom |-> [x |-> F32(lx), y |-> F32(ly), z |-> F32(lz)],
                        ballast_fill |-> fill]]
          /\ hullCall = Some([inputs |-> [thrust |-> F32(run.thrust), yaw |-> yaw,
                                          pump_fwd |-> F32(0), pump_aft |-> F32(0)],
                              dt |-> dt, kp |-> kp,
                              before |-> hull[1],
                              done |-> [c \in Copies |-> FALSE],
                              sink |-> [c \in Copies |-> FALSE],
                              dbg |-> [c \in Copies |-> None]])
    /\ ballast_fill = <<>> /\ ballastLog = None
    /\ flowCall = None
    /\ PauseIdle
    /\ ClientInitBase
    /\ ServerIdle
    /\ controls = 0
    /\ serverSub = SpawnSample
    /\ cDt = 1

HullNext == step_hull

SpecHull == HullInit /\ [][HullNext]_vars

\* ---------------------------------------------------------------------------
\* The flow field of a level: sample_flow_at
\* ---------------------------------------------------------------------------
\* Lengths are metres, flows mm/s, variances thousandths.

Vec3f(x, y, z) == [x |-> x, y |-> y, z |-> z]

vadd(a, b) == Vec3f(a.x + b.x, a.y + b.y, a.z + b.z)

vsub(a, b) == Vec3f(a.x - b.x, a.y - b.y, a.z - b.z)

Dot(a, b) == a.x * b.x + a.y * b.y + a.z * b.z

\* FlowFieldSpec::Uniform
Uniform(flow, variance) == [flow |-> flow, variance |-> variance]

\* the tunnel of both built-in levels
tunnel_size == Vec3f(288, 24, 32)
tunnel_pos == Vec3f(264, 4, 0)

greybox_level ==
    [tunnel |-> [size |-> tunnel_size, pos |-> tunnel_pos,
                 flow |-> Uniform(Vec3f(1500, 0, 0), 200)],
     torus_tunnel |-> None]

torus_two_exit_level ==
    [tunnel |-> [size |-> tunnel_size, pos |-> tunnel_pos,
                 flow |-> Uniform(Vec3f(2000, 0, 200), 150)],
     torus_tunnel |-> Some([center |-> tunnel_pos, axis |-> Vec3f(0, 1, 0),
                            major_radius |-> 60, minor_radius |-> 10,
                            flow |-> Uniform(Vec3f(2500, 0, 0), 200)])]

Levels == {greybox_level, torus_two_exit_level}

\* the root of a square number
Root(n) == CHOOSE r \in 0..n : r * r = n

\* ((p_len - major).abs().powi(2) + h * h).sqrt() <= minor, with p_len the
\* root of p2: both sides are squared, and squared once more where the root of
\* p2 remains, so that the comparison is exact for every p2
TubeWithin(p2, h, major, minor) ==
    LET rest == p2 + major * major + h * h - minor * minor
    IN  rest <= 0 \/ rest * rest <= 4 * major * major * p2

\* the sum of the fields met so far and their number
NoField == [flow |-> Vec3f(0, 0, 0), variance |-> 0, count |-> 0]

AddField(acc, field) ==
    [flow |-> vadd(acc.flow, field.flow),
     variance |-> acc.variance + field.variance,
     count |-> acc.count + 1]

\* the tunnel's box, faces included
AfterTunnel(level, pos, acc) ==
    LET half == Vec3f(level.tunnel.size.x \div 2, level.tunnel.size.y \div 2,
                      level.tunnel.size.z \div 2)
        min  == vsub(level.tunnel.pos, half)
        max  == vadd(level.tunnel.pos, half)
    IN  IF /\ pos.x >= min.x /\ pos.x <= max.x
           /\ pos.y >= min.y /\ pos.y <= max.y
           /\ pos.z >= min.z /\ pos.z <= max.z
        THEN AddField(acc, level.tunnel.flow)
        ELSE acc

\* the torus tube, when the level has one and its axis has a length
AfterTorus(level, pos, acc) ==
    IF ~level.torus_tunnel.some THEN acc
    ELSE LET t == level.torus_tunnel.val
             axis_len2 == Dot(t.axis, t.axis)
         IN  IF ~(axis_len2 > 0) THEN acc
             ELSE LET axis_len == Root(axis_len2)
                      n  == Vec3f(t.axis.x \div axis_len, t.axis.y \div axis_len,
                                  t.axis.z \div axis_len)
                      d  == vsub(pos, t.center)
                      h  == Dot(d, n)
                      p  == Vec3f(d.x - n.x * h, d.y - n.y * h, d.z - n.z * h)
                  IN  IF TubeWithin(Dot(p, p), h, t.major_radius, t.minor_radius)
                      THEN AddField(acc, t.flow)
                      ELSE acc

\* a sum in place of the mean
Summed(acc) == [flow |-> acc.flow, variance |-> acc.variance]

\* flow = vscale(flow, 1.0 / count); variance /= count, when count > 0
Averaged(acc) ==
    IF acc.count > 0
    THEN [flow |-> Vec3f(Quot(acc.flow.x, acc.count), Quot(acc.flow.y, acc.count),
                         Quot(acc.flow.z, acc.count)),
          variance |-> Quot(acc.variance, acc.count)]
    ELSE [flow |-> acc.flow, variance |-> acc.variance]

sample_flow_at(level, pos, time) ==
    Averaged(AfterTorus(level, pos, AfterTunnel(level, pos, NoField)))

\* positions: in the tunnel's middle, on the ring, on the tube's and the
\* box's faces, a step beyond them, and on the ring where it leaves the box
SampleXs == {264, 300, 324, 334, 335, 408, 409}
SampleYs == {4, 14, 15, 16, 17}
SampleZs == {0, 16, 17, 48}

\* times of a call, in seconds
SampleTimes == {0, 1, 7}

\* one call of sample_flow_at at a time not sampled yet
sample_flow ==
    /\ flowCall.some
    /\ \E time \in SampleTimes :
          /\ ~flowCall.val.out[time].some
          /\ LET call == flowCall.val
             IN  flowCall' = Some([call EXCEPT !.out[time] =
                                      Some(sample_flow_at(call.level, call.pos, time))])
    /\ UNCHANGED <<clientVars, serverVars, ballast_fill, ballastLog, hull, hullCall, pauseVars>>

\* a built-in level and a position; the client, the server and the hulls are
\* not part of the run
FlowInit ==
    /\ \E level \in Levels, x \in SampleXs, y \in SampleYs, z \in SampleZs :
          flowCall = Some([level |-> level, pos |-> Vec3f(x, y, z),
                           out |-> [time \in SampleTimes |-> None]])
    /\ ballast_fill = <<>> /\ ballastLog = None
    /\ hull = <<>> /\ hullCall = None
    /\ PauseIdle
    /\ ClientInitBase
    /\ ServerIdle
    /\ controls = 0
    /\ serverSub = SpawnSample
    /\ cDt = 1

FlowNext == sample_flow

SpecFlow == FlowInit /\ [][FlowNext]_vars

\* ---------------------------------------------------------------------------
\* The pause flag: several connected clients and the server
\* ---------------------------------------------------------------------------
\* connected clients
PauseClients == {1, 2}
\* presses of the pause toggle in a run
MaxToggles == 2
\* messages a channel direction of one client holds
MaxInFlight == 3

PauseRequest(p) == [type |-> "PauseRequest", paused |-> p]
PauseState(p) == [type |-> "PauseState", paused |-> p]

\* ui_thrust_slider: the user of client c presses the pause toggle
toggle_pause(c) ==
    /\ toggles > 0
    /\ toggles' = toggles - 1
    /\ sim_pause' = [sim_pause EXCEPT ![c] = ~@]
    /\ UNCHANGED <<last, requests, states, server_paused>>

\* send_pause_request of client c in a frame in which it does not return early
send_pause_request(c) ==
    /\ last[c] # Some(sim_pause[c])
    /\ Len(requests[c]) < MaxInFlight
    /\ requests' = [requests EXCEPT ![c] = Append(@, PauseRequest(sim_pause[c]))]
    /\ last' = [last EXCEPT ![c] = Some(sim_pause[c])]
    /\ UNCHANGED <<sim_pause, states, server_paused, toggles>>

\* pump_network of client c: the PauseStates that have arrived by this frame
\* are read in order, each one assigned to SimPause
pump_pause(c) ==
    /\ \E k \in 1..Len(states[c]) :
          /\ sim_pause' = [sim_pause EXCEPT ![c] = states[c][k].paused]
          /\ states' = [states EXCEPT ![c] = SubSeq(@, k + 1, Len(@))]
    /\ UNCHANGED <<last, requests, server_paused, toggles>>

\* the PauseRequest arm for the requests read from one client, in order: the
\* flag is set and a PauseState goes to every connected client
RECURSIVE HandlePauseRequests(_, _)
HandlePauseRequests(st, reqs) ==
    IF reqs = <<>> THEN st
    ELSE HandlePauseRequests(
             [paused |-> Head(reqs).paused,
              out |-> [c \in PauseClients |-> Append(st.out[c], PauseState(Head(reqs).paused))]],
             Tail(reqs))

\* for client_id in server.clients_id() { while let Some(payload) = ... }
RECURSIVE HandleClients(_, _, _)
HandleClients(st, cs, arrived) ==
    IF cs = {} THEN st
    ELSE LET c == CHOOSE x \in cs : \A y \in cs : x <= y
         IN  HandleClients(HandlePauseRequests(st, SubSeq(requests[c], 1, arrived[c])),
                           cs \ {c}, arrived)

\* server_handle_messages in a frame by which arrived[c] requests of client c
\* have reached the server
handle_pause_requests ==
    /\ \E arrived \in [PauseClients -> 0..MaxInFlight] :
          /\ \A c \in PauseClients : arrived[c] <= Len(requests[c])
          /\ \E c \in PauseClients : arrived[c] > 0
          /\ LET st == HandleClients([paused |-> server_paused, out |-> states],
                                     PauseClients, arrived)
             IN  /\ \A c \in PauseClients : Len(st.out[c]) <= MaxInFlight
                 /\ server_paused' = st.paused
                 /\ states' = st.out
          /\ requests' = [c \in PauseClients |->
                             SubSeq(requests[c], arrived[c] + 1, Len(requests[c]))]
    /\ UNCHANGED <<sim_pause, last, toggles>>

\* the clients have connected and no system has run; the other parts of the
\* program are not part of the run
PauseInit ==
    /\ sim_pause = [c \in PauseClients |-> FALSE]
    /\ last = [c \in PauseClients |-> None]
    /\ requests = [c \in PauseClients |-> <<>>]
    /\ states = [c \in PauseClients |-> <<>>]
    /\ server_paused = FALSE
    /\ toggles = MaxToggles
    /\ ballast_fill = <<>> /\ ballastLog = None
    /\ hull = <<>> /\ hullCall = None
    /\ flowCall = None
    /\ ClientInitBase
    /\ ServerIdle
    /\ controls = 0
    /\ serverSub = SpawnSample
    /\ cDt = 1

PauseOthersIdle == UNCHANGED <<clientVars, serverVars, ballast_fill, ballastLog, hull, hullCall, flowCall>>

UserToggles == PauseOthersIdle /\ \E c \in PauseClients : toggle_pause(c)

ClientSendsPause == PauseOthersIdle /\ \E c \in PauseClients : send_pause_request(c)

ClientPumpsPause == PauseOthersIdle /\ \E c \in PauseClients : pump_pause(c)

ServerHandlesPause == PauseOthersIdle /\ handle_pause_requests

PauseNext ==
    \/ UserToggles
    \/ ClientSendsPause
    \/ ClientPumpsPause
    \/ ServerHandlesPause

\* every client and the server keep taking frames, and the reliable channel
\* delivers what it holds
PauseFair ==
    /\ \A c \in PauseClients :
          /\ WF_vars(PauseOthersIdle /\ send_pause_request(c))
          /\ WF_vars(PauseOthersIdle /\ pump_pause(c))
    /\ WF_vars(ServerHandlesPause)

SpecPause == PauseInit /\ [][PauseNext]_vars /\ PauseFair

\* ===========================================================================
\* Properties of the server
\* ===========================================================================
\* a queue in timestamp order, events of one timestamp in arrival order
TimeOrdered(q) ==
    \A i, j \in 1..Len(q) :
        i < j => (q[i].t_ms < q[j].t_ms \/ (q[i].t_ms = q[j].t_ms /\ q[i].n < q[j].n))

Scheduled(e) == IF entities[e].sched.some THEN entities[e].sched.val ELSE <<>>
InputsOf(r) == [thrust |-> r.thrust, yaw |-> r.yaw, pump_fwd |-> r.pump_fwd, pump_aft |-> r.pump_aft]

\* C8: no InputEvent is popped, and none is the control input of a step, at a
\* server clock below its t_ms; every InputSchedule is sorted by t_ms with
\* events of equal t_ms in arrival order, and events leave it in that order.
C8_ScheduleTimeOrdered ==
    /\ \A e \in Entities :
          /\ TimeOrdered(Scheduled(e))
          /\ (entities[e].input.some /\ entities[e].input.val.t_ms.some) =>
                 entities[e].input.val.t_ms.val <= sNow
    /\ \A i \in 1..Len(stepLog) :
          LET l == stepLog[i]
          IN  /\ TimeOrdered(l.popped)
              /\ \A k \in 1..Len(l.popped) : l.popped[k].t_ms <= l.now_ms
              /\ l.inp_t_ms.some => l.inp_t_ms.val <= l.now_ms
              /\ \A k \in 1..Len(l.popped), m \in 1..Len(Scheduled(l.entity)) :
                    /\ l.popped[k].t_ms <= Scheduled(l.entity)[m].t_ms
                    /\ Scheduled(l.entity)[m].t_ms > l.now_ms

\* a tick popped a due event while two events of one t_ms, inserted into the
\* existing queue, wait in arrival order; the step ran on an input that came
\* from an earlier event
C8_Witness ==
    \E i \in 1..Len(stepLog) :
        LET l == stepLog[i]
            q == Scheduled(l.entity)
        IN  /\ l.popped # <<>>
            /\ Len(q) >= 2
            /\ q[1].t_ms = q[2].t_ms

\* C9 (as stated): in every consumed tick all due events are popped before the
\* step, and the step of that tick uses the values of the last event popped.
C9_StepUsesLastPopped ==
    \A i \in 1..Len(stepLog) :
        LET l == stepLog[i]
        IN  /\ \A m \in 1..Len(Scheduled(l.entity)) : Scheduled(l.entity)[m].t_ms > l.now_ms
            /\ l.popped # <<>> => l.inp = InputsOf(l.popped[Len(l.popped)])

\* C10 (as stated): a step that leaves the entity outside every interior box
\* disconnects the client, removes it from ClientEntities, queues the despawn,
\* and no later tick steps that entity again.
C10_NeverSteppedAfterViolation ==
    \A i \in 1..Len(stepLog) :
        LET l == stepLog[i]
        IN  (l.collide /\ l.owned) =>
               /\ \A c \in DOMAIN ClientEntities : ClientEntities[c] # l.entity
               /\ \E k \in 1..Len(commandsS.physics) : commandsS.physics[k] = DespawnCmd(l.entity)
               /\ \A j \in 1..Len(stepLog) : j > i => stepLog[j].entity # l.entity

\* ---- pause and the fixed-step accumulator ----
\* the call server_physics_tick made in the current frame
PhysCalled == physLog.call.some
Call == physLog.call.val
TicksConsumed == Tick - Call.tick_before

\* C11 (as the code has it): a server_physics_tick call that runs with the pause
\* flag set consumes no tick, leaves the tick counter, every SubState, every
\* InputSchedule, the inbox and the command buffer as they were and returns with
\* the accumulator at 0; the first unpaused call after a paused call, with frame
\* delta d, consumes exactly floor(d / dt) ticks.
C11_PausedCallConsumesNothing ==
    PhysCalled =>
        /\ Call.paused => PhysicsTiming = 0 /\ TicksConsumed = 0 /\ Call.kept
        /\ (~Call.paused /\ Call.prev_paused) => TicksConsumed = sDelta \div PhysicsDt

\* an unpaused call that follows a paused call and consumes ticks
C11_Witness ==
    PhysCalled /\ ~Call.paused /\ Call.prev_paused /\ TicksConsumed > 0

\* C11 (as stated): whenever a frame ends with the pause flag set, no tick was
\* consumed in it and the accumulator is 0.
C11_PausedFrameEndsAtZero ==
    (SimPaused /\ sRan = AllServerSystems) => PhysicsTiming = 0 /\ TicksConsumed = 0

\* the Stepper runs logged for tick t and entity e in the current call
StepsOf(t, e) == {i \in 1..Len(stepLog) : stepLog[i].tick = t /\ stepLog[i].entity = e}

\* C12: when an unpaused server_physics_tick call returns, 0 <= acc < dt, the
\* ticks it consumed number floor((acc_before + frame_delta) / dt), the tick
\* counter went up by one per consumed tick, and each consumed tick ran the
\* Stepper exactly once for every entity of the query.
C12_AccumulatorAndTicks ==
    (PhysCalled /\ ~Call.paused) =>
        /\ 0 <= PhysicsTiming /\ PhysicsTiming < PhysicsDt
        /\ TicksConsumed = (Call.acc_before + sDelta) \div PhysicsDt
        /\ PhysicsTiming = Call.acc_before + sDelta - TicksConsumed * PhysicsDt
        /\ \A t \in Call.tick_before..(Tick - 1) :
              \A e \in Call.queried : Cardinality(StepsOf(t, e)) = 1
        /\ \A i \in 1..Len(stepLog) :
              /\ stepLog[i].tick \in Call.tick_before..(Tick - 1)
              /\ stepLog[i].entity \in Call.queried

\* a call that starts from a remainder, consumes two ticks and steps an entity
C12_Witness ==
    /\ PhysCalled /\ ~Call.paused
    /\ Call.acc_before > 0
    /\ TicksConsumed = 2
    /\ Call.queried # {}
    /\ Len(stepLog) = 2

\* ---- the handshake and undecodable payloads ----
\* a step of server_handle_messages
MessagesStep == "messages" \notin sRan /\ "messages" \in sRan'

\* the next payload the server will read from c is a Hello of another version
BadHelloQueued(c) ==
    /\ c \in server_clients
    /\ serverIn[c] # <<>>
    /\ Head(serverIn[c]).type = "Hello"
    /\ Head(serverIn[c]).protocol # PROTOCOL_VERSION

SentTo(out, c, type) == {i \in 1..Len(out) : out[i].to = c /\ out[i].msg.type = type}

\* C13: server_handle_messages answers a Hello of another protocol version with
\* Disconnect(IncompatibleProtocol{server, client}) on the reliable channel and
\* disconnects the client; it sends it no JoinAck, queues no spawn, reserves no
\* entity and leaves ClientEntities unchanged.
C13_IncompatibleHelloRejected ==
    [][\A c \in ClientIds :
          (MessagesStep /\ BadHelloQueued(c)) =>
              /\ \E i \in 1..Len(serverOut') :
                    serverOut'[i] = [to |-> c, channel |-> "ReliableOrdered",
                                     msg |-> IncompatibleProtocol(Head(serverIn[c]).protocol)]
              /\ c \notin server_clients'
              /\ SentTo(serverOut', c, "JoinAck") = {}
              /\ ClientEntities' = ClientEntities
              /\ entities' = entities
              /\ commandsS' = commandsS]_vars

\* the Disconnect is in the frame's outbound messages and the client is gone
C13_Witness ==
    /\ "messages" \in sRan
    /\ \E c \in ClientIds :
          /\ client_proto[c] = PROTOCOL_VERSION - 1
          /\ c \notin server_clients
          /\ SentTo(serverOut, c, "Disconnect") # {}
          /\ c \notin DOMAIN ClientEntities

\* ===========================================================================
\* Properties of the client's frame: time sync and the order of the systems
\* ===========================================================================
\* a step of apply_state_to_sub
ApplyStep == ~Ran("apply") /\ "apply" \in cRan'

\* pump_network has run in this frame and accepted no snapshot, and the
\* snapshot held was folded into TimeSync in an earlier frame
NoNewSnapshot ==
    /\ pumpLog.some
    /\ pumpLog.val.pre.latest = latest
    /\ latest.some
    /\ tsync.last_server_ms = latest.val.server_ms

\* C15: in a frame in which pump_network accepted no new snapshot,
\* apply_state_to_sub leaves TimeSync (offset_ms and last_server_ms) unchanged.
C15_FoldOncePerSnapshot ==
    [][(ApplyStep /\ NoNewSnapshot) => tsync' = tsync]_vars

\* C16: in every client frame simulate_submarine has run before
\* apply_state_to_sub applies the network correction to the predicted state
\* (a snap, a velocity nudge, a new or a re-targeted correction).
C16_PhysicsBeforeCorrection ==
    Applied => Ran("sim")

\* C17: in every client frame pump_network has run before apply_state_to_sub.
C17_PumpBeforeApply ==
    applyLog.some => applyLog.val.after_pump

\* a run of simulate_submarine that takes at least one fixed step
SimSteps == ~Ran("sim") /\ "sim" \in cRan' /\ state_comp' # state_comp

\* C18: the state simulate_submarine hands to step_submarine carries the
\* position, velocity and orientation that the snaps and blend steps have
\* written: the stepped state is one step on from the corrected pose.
C18_StepStartsFromCorrectedState ==
    [][SimSteps => \E d \in Drifts : state_comp'.val = Advance(StateFromTransform, d)]_vars

\* ===========================================================================
\* Properties of a session
\* ===========================================================================
\* a queue without the payloads that do not decode
Decodable(q) == SelectSeq(q, LAMBDA m : m # Undecodable)
HasNoise(q) == Decodable(q) # q

\* a step of pump_network
PumpStep == ~Ran("pump") /\ "pump" \in cRan'

\* C14: a payload that fails to decode is dropped without effect.  A run of
\* server_handle_messages over a queue that holds such payloads sends, spawns,
\* disconnects, pauses and queues exactly what it would for the queue without
\* them, and a run of pump_network leaves LatestStateDelta, MyPlayerId, the
\* pause flag, the stats and the tick rate exactly as it would without them:
\* the other payloads of the queue, later ones included, are processed.
C14_UndecodableDropped ==
    [][/\ (MessagesStep /\ HasNoise(serverIn[SessionClient])
           /\ SessionClient \in server_clients) =>
             LET st == ReceiveAll(MessagesState, SessionClient,
                                  Decodable(serverIn[SessionClient]))
             IN  /\ serverOut' = st.out
                 /\ server_clients' = st.conn
                 /\ server_events' = st.events
                 /\ ClientEntities' = st.clients
                 /\ entities' = st.ents
                 /\ commandsS'.messages = st.cmds
                 /\ InputEventInbox' = st.inbox
                 /\ SimPaused' = st.paused
       /\ (PumpStep /\ (HasNoise(clientIn.rel) \/ HasNoise(clientIn.unrel))) =>
             LET st == DrainUnreliable(DrainReliable(PumpState, Decodable(clientIn.rel), cNow),
                                       Decodable(clientIn.unrel), cNow)
             IN  /\ latest' = st.latest
                 /\ my_id' = st.my_id
                 /\ paused' = st.paused
                 /\ net_stats' = st.net_stats
                 /\ client_tick_dt' = st.client_tick_dt
                 /\ connected' = connected]_vars

\* pump_network has read an undecodable payload and the JoinAck and the
\* snapshot queued with it, and has taken both in, while the server, which
\* read the client's Hello, still lists the client
C14_Witness ==
    /\ pumpLog.some
    /\ HasNoise(pumpLog.val.received)
    /\ ~pumpLog.val.pre.my_id.some /\ my_id.some
    /\ pumpLog.val.pre.latest # latest
    /\ SessionClient \in server_clients

InUnit(x) == ~x.nan /\ 0 <= x.v /\ x.v <= 1000

\* the last call was one with dt > 0
Stepped == ballastLog.some /\ ballastLog.val.dt > 0

\* |after - before| <= 0.2 * dt, dt in ms
ChangeWithin(before, after, dt) ==
    /\ ~before.nan /\ ~after.nan
    /\ Abs(after.v - before.v) * 1000 <= pump_rate_per_s * dt

\* C20: whatever pump_fwd and pump_aft a sequence of step_submarine calls with
\* dt > 0 is given, every entry of a ballast_fill that started within [0, 1]
\* stays within [0, 1], and one call changes a tank by at most 0.2 * dt.
C20_BallastStaysInUnit ==
    /\ \A i \in 1..Len(ballast_fill) : InUnit(ballast_fill[i])
    /\ Stepped =>
          \A i \in 1..Len(ballast_fill) :
              ChangeWithin(ballastLog.val.before[i], ballast_fill[i], ballastLog.val.dt)

\* the same for the calls whose pump speeds are numbers: a step from fills
\* within [0, 1] ends within [0, 1] and moves no tank by more than 0.2 * dt
BallastBoundedForNumbers ==
    [][(/\ \A i \in 1..Len(ballast_fill) : InUnit(ballast_fill[i])
        /\ ballastLog'.some /\ ballastLog'.val.dt > 0
        /\ ~ballastLog'.val.inputs.pump_fwd.nan
        /\ ~ballastLog'.val.inputs.pump_aft.nan)
       => \A i \in 1..Len(ballast_fill) :
              /\ InUnit(ballast_fill'[i])
              /\ ChangeWithin(ballast_fill[i], ballast_fill'[i], ballastLog'.val.dt)]_vars

\* a step of six seconds at half speed has stopped a half-full tank at full
BallastClampReached ==
    /\ Stepped
    /\ Len(ballast_fill) >= 2
    /\ ballastLog.val.before[1] = F32(500)
    /\ ballastLog.val.inputs.pump_fwd = F32(500)
    /\ ballast_fill[1] = F32(1000)
    /\ ballastLog.val.dt = 6000

\* ===========================================================================
\* Properties of the rigid body
\* ===========================================================================
\* copy c has been stepped with dt > 0
HullStepped(c) == hullCall.some /\ hullCall.val.done[c] /\ hullCall.val.dt > 0

\* the body rates derived from the stored angular momentum of copy c, mrad/s
BodyRates(c) ==
    [pitch |-> BodyRate(hull[c].ang_mom.x, small_skiff_spec.ixx),
     yaw   |-> BodyRate(hull[c].ang_mom.y, small_skiff_spec.iyy),
     roll  |-> BodyRate(hull[c].ang_mom.z, small_skiff_spec.izz)]

\* |x| <= bound
Within(x, bound) == ~x.nan /\ Abs(x.v) <= bound

\* C21: after every step_submarine call with dt > 0, for any inputs and any
\* prior angular momentum, |yaw rate| <= 0.6 rad/s and |pitch rate| <= 0.5 rad/s.
C21_YawPitchRatesClamped ==
    \A c \in Copies :
        HullStepped(c) => Within(BodyRates(c).yaw, r_max) /\ Within(BodyRates(c).pitch, q_max)

\* the same for the calls whose rudder input is a number
RatesClampedForNumbers ==
    \A c \in Copies :
        (HullStepped(c) /\ ~hullCall.val.inputs.yaw.nan)
            => Within(BodyRates(c).yaw, r_max) /\ Within(BodyRates(c).pitch, q_max)

\* a step has stopped a yaw momentum and a pitch momentum that were beyond
\* r_max and q_max at the clamps
RateClampsReached ==
    /\ HullStepped(1)
    /\ hullCall.val.before.ang_mom.y = F32(7000) /\ BodyRates(1).yaw = F32(r_max)
    /\ hullCall.val.before.ang_mom.x = F32(900) /\ BodyRates(1).pitch = F32(q_max)

\* C22: after every step_submarine call every component of the body rate,
\* roll included, is within a fixed clamp that depends neither on the inputs
\* nor on the prior state; q_max and r_max are the clamps the code has, and
\* the roll rate is held to the greater of the two.
C22_AllRatesClamped ==
    \A c \in Copies :
        (HullStepped(c) /\ ~hullCall.val.inputs.yaw.nan)
            => /\ Within(BodyRates(c).pitch, q_max)
               /\ Within(BodyRates(c).yaw, r_max)
               /\ Within(BodyRates(c).roll, MaxOf(q_max, r_max))

C25_RightRudderIncreasesYaw ==
    \A c \in Copies :
        (/\ HullStepped(c)
         /\ f32_gt(hullCall.val.inputs.yaw, F32(0))
         /\ \A axis \in {"x", "y", "z"} : hullCall.val.before.ang_mom[axis] = F32(0))
            => f32_gt(yaw_of(hull[c].orientation), yaw_of(hullCall.val.before.orientation))

\* ---------------------------------------------------------------------------
\* Properties of the flow field
\* ---------------------------------------------------------------------------

\* the flow-bearing volumes of a level
FlowVolumes(level) ==
    {"tunnel"} \cup (IF level.torus_tunnel.some THEN {"torus"} ELSE {})

FieldOf(level, volume) ==
    IF volume = "tunnel" THEN level.tunnel.flow ELSE level.torus_tunnel.val.flow

\* the position lies in the volume: within half the size of the box's centre
\* on every axis, or no further than the minor radius from the ring's circle
InsideVolume(level, volume, pos) ==
    IF volume = "tunnel"
    THEN LET d == vsub(pos, level.tunnel.pos)
         IN  /\ 2 * Abs(d.x) <= level.tunnel.size.x
             /\ 2 * Abs(d.y) <= level.tunnel.size.y
             /\ 2 * Abs(d.z) <= level.tunnel.size.z
    ELSE LET t == level.torus_tunnel.val
             d == vsub(pos, t.center)
         IN  TubeWithin(d.x * d.x + d.z * d.z, d.y, t.major_radius, t.minor_radius)

Containing(level, pos) ==
    {volume \in FlowVolumes(level) : InsideVolume(level, volume, pos)}

RECURSIVE FieldSum(_, _)
FieldSum(level, volumes) ==
    IF volumes = {} THEN NoField
    ELSE LET volume == CHOOSE v \in volumes : TRUE
         IN  AddField(FieldSum(level, volumes \ {volume}), FieldOf(level, volume))

\* the arithmetic mean of the fields of the volumes, zero for none of them
MeanField(level, volumes) ==
    LET total == FieldSum(level, volumes)
        k     == Cardinality(volumes)
    IN  IF k = 0 THEN [flow |-> Vec3f(0, 0, 0), variance |-> 0]
        ELSE [flow |-> Vec3f(Quot(total.flow.x, k), Quot(total.flow.y, k),
                             Quot(total.flow.z, k)),
              variance |-> Quot(total.variance, k)]

Elems(q) == {q[i] : i \in 1..Len(q)}

\* the InputEvents waiting for entity e: in the inbox, in an InputSchedule that
\* a command buffer is about to insert, or in the entity's InputSchedule
Waiting(e) ==
    {m.ev : m \in {x \in Elems(InputEventInbox) : x.entity = e}}
    \cup UNION {Elems(cmd.sched) :
                  cmd \in {x \in UNION {Elems(commandsS[b]) : b \in DOMAIN commandsS} :
                              x.op = "insert_InputSchedule" /\ x.entity = e}}
    \cup Elems(Scheduled(e))

\* the InputEvents a tick of the current call popped for entity e at or after
\* their t_ms
PoppedDue(e) ==
    UNION {{ev \in Elems(stepLog[i].popped) : ev.t_ms <= stepLog[i].now_ms} :
              i \in {j \in 1..Len(stepLog) : stepLog[j].entity = e}}

Owned(e) == \E c \in DOMAIN ClientEntities : ClientEntities[c] = e

\* C26: an InputEvent that waits for an entity keeps waiting for it until a
\* tick pops it at or after its t_ms, as long as the server runs and the entity
\* stays with its client; none is discarded
C26_NoInputEventDiscarded ==
    [][\A e \in Entities :
          (Owned(e)' /\ ~crashed') => Waiting(e) \subseteq (Waiting(e)' \cup PoppedDue(e)')]_vars

\* the same for the events that reach an InputSchedule one per frame: an event
\* that waits in an entity's InputSchedule stays there until it is popped
ScheduledEventsKept ==
    [][\A e \in Entities :
          (Owned(e)' /\ ~crashed' /\ entities[e].status = "alive") =>
              Elems(Scheduled(e)) \subseteq (Elems(Scheduled(e)') \cup PoppedDue(e)')]_vars

\* ---------------------------------------------------------------------------
\* Properties of the reconciliation over unbounded frames
\* ---------------------------------------------------------------------------
\* C27: a ServerCorrection does not persist indefinitely: whenever the
\* submarine has one, a later frame removes it
C27_CorrectionEventuallyRemoved == corr.some ~> ~corr.some

\* ---------------------------------------------------------------------------
\* Properties of the pause flag
\* ---------------------------------------------------------------------------
\* no PauseRequest and no PauseState is on its way, and every client's
\* SimPause is the server's flag
PauseQuiet ==
    /\ \A c \in PauseClients : requests[c] = <<>> /\ states[c] = <<>>
    /\ \A c \in PauseClients : sim_pause[c] = server_paused

\* C28: once the users have stopped pressing the toggle the exchange comes to
\* rest: from some point on nothing is in flight and every client's SimPause
\* equals the server's flag
C28_PauseExchangeQuiesces == <>[]PauseQuiet

\* ---------------------------------------------------------------------------
\* Properties of the handshake on the server
\* ---------------------------------------------------------------------------
\* all commands the server's systems have queued in the current frame
QueuedCommands == UNION {Elems(commandsS[b]) : b \in DOMAIN commandsS}

\* the Player id of entity e: that of the entity, or of its queued spawn
PlayerIdOf(e) ==
    IF entities[e].status = "alive" THEN entities[e].player
    ELSE (CHOOSE cmd \in QueuedCommands : cmd.op = "spawn" /\ cmd.entity = e).player

\* entities the server holds: spawned or about to be, and not about to go
HeldEntities ==
    {e \in Entities : /\ entities[e].status \in {"alive", "reserved"}
                      /\ DespawnCmd(e) \notin QueuedCommands}

\* the JoinAcks sent to client c in the current frame, as positions of serverOut
JoinAcksTo(c) ==
    {i \in 1..Len(serverOut) : serverOut[i].to = c /\ serverOut[i].msg.type = "JoinAck"}

\* C29: however many Hellos a client sends, the server holds at most one
\* entity for it, and the player_id of the latest JoinAck it was sent is the
\* Player id of that entity
C29_JoinAckNamesTheEntity ==
    /\ Cardinality(HeldEntities) <= Cardinality(DOMAIN ClientEntities)
    /\ \A c \in DOMAIN ClientEntities :
          JoinAcksTo(c) # {} =>
              LET latest_ack == serverOut[CHOOSE i \in JoinAcksTo(c) :
                                              \A j \in JoinAcksTo(c) : j <= i].msg
              IN  latest_ack.player_id = PlayerIdOf(ClientEntities[c])

\* the part that holds: repeated Hellos never give a client a second entity
OneEntityPerClient ==
    Cardinality(HeldEntities) <= Cardinality(DOMAIN ClientEntities)

\* a client that has its entity was answered a further Hello
SecondHelloAnswered ==
    \E c \in DOMAIN ClientEntities :
        /\ entities[ClientEntities[c]].status = "alive"
        /\ JoinAcksTo(c) # {}

\* ---------------------------------------------------------------------------
\* Properties of the two ways a client's entity goes
\* ---------------------------------------------------------------------------
\* the despawns of entity e queued in the current frame, per buffer position
QueuedDespawns(e) ==
    UNION {{<<b, i>> : i \in {j \in 1..Len(commandsS[b]) : commandsS[b][j] = DespawnCmd(e)}} :
              b \in DOMAIN commandsS}

\* the ticks of the current call in which entity e left the level while a
\* client owned it: the ticks that disconnect the client
ViolationDisconnects(e) ==
    {i \in 1..Len(stepLog) : stepLog[i].entity = e /\ stepLog[i].collide /\ stepLog[i].owned}

\* C30: the bounds-violation disconnect is issued at most once and the entity
\* is despawned at most once, whatever the order of the violation, the
\* catch-up ticks of its frame and the ClientDisconnected event; an entity
\* that either path has given up has no mapping in ClientEntities
C30_DisconnectAndDespawnOnce ==
    \A e \in Entities :
        /\ Cardinality(ViolationDisconnects(e)) <= 1
        /\ Cardinality(QueuedDespawns(e)) <= 1
        /\ QueuedDespawns(e) # {} => entities[e].status # "dead"
        /\ ViolationDisconnects(e) # {} =>
               entities[e].status = "alive" /\ Cardinality(QueuedDespawns(e)) = 1
        /\ (QueuedDespawns(e) # {} \/ entities[e].status = "dead") =>
               \A c \in DOMAIN ClientEntities : ClientEntities[c] # e

\* the entity left the level in one tick, a catch-up tick of the same frame
\* stepped it again outside the level, and a single despawn is queued
C30_Witness ==
    \E e \in Entities :
        /\ ViolationDisconnects(e) # {}
        /\ \E i \in ViolationDisconnects(e), j \in 1..Len(stepLog) :
              j > i /\ stepLog[j].entity = e /\ stepLog[j].collide /\ ~stepLog[j].owned
        /\ Cardinality(QueuedDespawns(e)) = 1

\* the ClientDisconnected event of a client whose entity a bounds violation
\* has removed is handled in a later frame, and nothing is left to do
EventAfterViolationHandled ==
    \E e \in Entities :
        /\ entities[e].status = "dead"
        /\ "events" \in sRan
        /\ server_events = <<>>
        /\ server_clients = {}
        /\ QueuedDespawns(e) = {}

====
